---- MODULE Spec2Model ----
(***************************************************************************)
(* Interview Orchestrator Core: one interview session of the               *)
(* InterviewManager (internal/audio/stt/stt.go, orchestrator package) with *)
(* its StreamingSTT clients (internal/audio/stt/streaming.go) and its VAD. *)
(*                                                                         *)
(* Goroutines are modelled as threads with a program counter each:         *)
(*   handler h   - one HTTP request running HandleWebSocket, then          *)
(*                 processSession and handleAudioStream with its deferred   *)
(*                 cleanup; it upgrades socket h;                           *)
(*   listener h  - the listenForTranscripts goroutine handler h started;   *)
(*   reader c    - the handleMessages goroutine of StreamingSTT client c;  *)
(*   closer      - the HTTP request running CloseSession.                  *)
(* A step is one stretch of code between two suspension points (a lock     *)
(* acquisition, a socket read or write, a dial, a sleep, a channel          *)
(* operation).  Fields the code reads without a lock are read in the step  *)
(* that uses them.                                                          *)
(***************************************************************************)
EXTENDS Integers, Sequences, FiniteSets, TLC

\* ------------------------------------------------------------------ bounds
\* What the environment does is bounded per scenario: a scenario fixes how many
\* HandleWebSocket requests arrive (attach), how many StreamingSTT objects may be
\* constructed (clients), how many audio frames the browser sends (frames) and
\* of which kinds, how many silence ticks fire (ticks) and how far an utterance
\* may age (age), how many messages the remote ASR sends (msgs) and of which
\* types, how many CloseSession requests arrive (close), the config the session
\* is created with (cfgs), how many frames have been read before a second
\* request arrives (attachAfter), how many requests have arrived before a
\* CloseSession arrives (closeAfter), and which faults the environment may inject:
\*   "dial"    - a websocket.Dial to the ASR fails,
\*   "down"    - every websocket.Dial to the ASR fails,
\*   "write"   - a conn.Write to the ASR fails,
\*   "upgrade" - the HTTP upgrade fails,
\*   "peer"    - the browser closes its socket,
\*   "drop"    - the link to the ASR breaks, at any time.
\* Every behaviour runs in one scenario.
RaceAttach == 2
RaceClients == 2
RaceClose == 1
StaleAttach == 2
StaleClients == 3
StaleFrames == 1
StaleClose == 1
SwapAttach == 2
SwapClients == 2
SwapFrames == 2
SwapClose == 1
RoundsClients == 4
RoundsFrames == 6
TalkAttach == 2
TalkClients == 2
TalkMsgs == 2
MiscFrames == 2
MiscTicks == 1
SilenceTicks == 12
RelearnClients == 2
RelearnMsgs == 4
HandleResults == 2
RecoverClients == 2
RecoverFrames == 2
ErrorMsgs == 12
ConnectCalls == 4
VadFrames == 12

FrameKinds == {"loud", "quiet", "short"}
Faults == {"dial", "down", "write", "upgrade", "peer", "drop"}

\* ------------------------------------------------------- program constants
maxReconnectAttempts == 3
maxSilenceCount == 12
ConnectTries == 3
TranscriptsCap == 100
ErrorsCap == 10
bufferSize == 5
minVoiceDuration == 3
minSilenceDuration == 5
maxRetries == 3
Second == 1000        \* time.Second, in milliseconds

\* StreamingConfig values a session can be created with (sample rate, encoding;
\* the four turn parameters are the same constants at every construction site).
DefaultConfig == [SampleRate |-> 16000, Encoding |-> "pcm_s16le"]
CustomConfig == [SampleRate |-> 48000, Encoding |-> "pcm_s16le"]
Configs == {DefaultConfig, CustomConfig}
\* the literal config of reconnectSTTOnError
ReconnectConfig == [SampleRate |-> 16000, Encoding |-> "pcm_s16le"]

\* the message types the remote ASR may send
MessageTypes == {"SessionBegins", "Connected", "PartialTranscript", "FinalTranscript",
                 "Turn", "Error", "SessionTerminated"}

Scenarios ==
  { \* CloseSession racing with two HandleWebSocket requests
    [name |-> "race", attach |-> RaceAttach, clients |-> RaceClients,
     frames |-> 0, kinds |-> {}, ticks |-> 0, age |-> 0,
     msgs |-> 0, types |-> {}, close |-> RaceClose, cfgs |-> {DefaultConfig},
     faults |-> {}, attachAfter |-> 0, closeAfter |-> 0],
    \* a second request that arrives while the first is streaming, then a
    \* CloseSession, all while the ASR cannot be reached
    [name |-> "stale", attach |-> StaleAttach, clients |-> StaleClients,
     frames |-> StaleFrames, kinds |-> {"loud"}, ticks |-> 0, age |-> 0,
     msgs |-> 0, types |-> {}, close |-> StaleClose, cfgs |-> {CustomConfig},
     faults |-> {"down"}, attachAfter |-> 1, closeAfter |-> StaleAttach],
    \* the same with two frames and an ASR that can be reached
    [name |-> "swap", attach |-> SwapAttach, clients |-> SwapClients,
     frames |-> SwapFrames, kinds |-> {"loud"}, ticks |-> 0, age |-> 0,
     msgs |-> 0, types |-> {}, close |-> SwapClose, cfgs |-> {DefaultConfig},
     faults |-> {}, attachAfter |-> 1, closeAfter |-> SwapAttach],
    \* one attachment whose sends and dials to the ASR fail
    [name |-> "rounds", attach |-> 1, clients |-> RoundsClients,
     frames |-> RoundsFrames, kinds |-> {"loud"}, ticks |-> 0, age |-> 0,
     msgs |-> 0, types |-> {}, close |-> 0, cfgs |-> {DefaultConfig},
     faults |-> {"dial", "write"}, attachAfter |-> 0, closeAfter |-> 0],
    \* transcripts flowing while the browser leaves and comes back
    [name |-> "talk", attach |-> TalkAttach, clients |-> TalkClients,
     frames |-> 0, kinds |-> {}, ticks |-> 0, age |-> 0,
     msgs |-> TalkMsgs, types |-> {"SessionBegins", "FinalTranscript"},
     close |-> 0, cfgs |-> {DefaultConfig}, faults |-> {"peer"},
     attachAfter |-> 0, closeAfter |-> 0],
    \* the ASR announces a session and sends finals, before and after a
    \* reconnect round
    [name |-> "relearn", attach |-> 1, clients |-> RelearnClients,
     frames |-> 1, kinds |-> {"loud"}, ticks |-> 0, age |-> 0,
     msgs |-> RelearnMsgs, types |-> {"SessionBegins", "FinalTranscript"},
     close |-> 0, cfgs |-> {DefaultConfig}, faults |-> {"write"},
     attachAfter |-> 0, closeAfter |-> 0],
    \* one utterance that is left to end by sustained silence
    [name |-> "silence", attach |-> 1, clients |-> 1,
     frames |-> 1, kinds |-> {"loud"}, ticks |-> SilenceTicks, age |-> 1,
     msgs |-> 0, types |-> {}, close |-> 0, cfgs |-> {DefaultConfig},
     faults |-> {}, attachAfter |-> 0, closeAfter |-> 0],
    \* one attachment with every kind of frame, tick, message and fault
    [name |-> "misc", attach |-> 1, clients |-> 1,
     frames |-> MiscFrames, kinds |-> FrameKinds, ticks |-> MiscTicks, age |-> 2,
     msgs |-> 1, types |-> MessageTypes, close |-> 0, cfgs |-> Configs,
     faults |-> {"upgrade", "peer"}, attachAfter |-> 0, closeAfter |-> 0] }

\* the scenario of the fair specification: one attachment; the browser leaves,
\* and the link to the ASR breaks when nothing else ends the reader's wait
LiveScenario ==
  [name |-> "live", attach |-> 1, clients |-> 1,
   frames |-> 0, kinds |-> {}, ticks |-> 0, age |-> 0,
   msgs |-> 0, types |-> {},
   close |-> 0, cfgs |-> {DefaultConfig}, faults |-> {"peer", "drop"},
   attachAfter |-> 0, closeAfter |-> 0]

\* the scenario of the specification of handleTranscript: one attachment whose
\* transcripts channel delivers results of every message type
HandleScenario ==
  [name |-> "handle", attach |-> 1, clients |-> 1,
   frames |-> 0, kinds |-> {}, ticks |-> 0, age |-> 0,
   msgs |-> HandleResults, types |-> MessageTypes,
   close |-> 0, cfgs |-> {DefaultConfig}, faults |-> {},
   attachAfter |-> 0, closeAfter |-> 0]

\* the scenario of the second fair specification: one attachment that streams
\* audio while the link to the ASR can break and dials and writes can fail
RecoverScenario ==
  [name |-> "recover", attach |-> 1, clients |-> RecoverClients,
   frames |-> RecoverFrames, kinds |-> {"loud"}, ticks |-> 0, age |-> 0,
   msgs |-> 0, types |-> {},
   close |-> 0, cfgs |-> {DefaultConfig}, faults |-> {"drop", "dial", "write"},
   attachAfter |-> 0, closeAfter |-> 0]

Max(S) == CHOOSE x \in S : \A y \in S : y <= x
MaxAttach == Max({sc.attach : sc \in Scenarios})
MaxClients == Max({sc.clients : sc \in Scenarios})

Handlers == 1..MaxAttach
Clients == 1..MaxClients
Contexts == 0..MaxAttach

NoThread == <<"-", 0>>
HandlerT(h) == <<"h", h>>
ListenerT(h) == <<"l", h>>
ReaderT(c) == <<"r", c>>
CloserT == <<"c", 0>>
CallerT == <<"k", 0>>

VARIABLES
  \* --- InterviewManager
  sessions,        \* im.sessions: the set of registered session ids (one id, "s")
  created,         \* InitializeSession has run
  imMu,            \* im.mu: the thread holding it for writing, or NoThread
  crashed,         \* an unrecovered panic ended the process
  scn,             \* the scenario of this behaviour
  \* --- InterviewSession
  Status, WebSocketConn, StreamingSTT, ctx, AssemblyAIID,
  TranscriptCount, UtteranceCount, Transcript,
  sessMu,          \* session.mu: holder or NoThread
  cancelled,       \* the contexts whose cancel() has been called
  vad,             \* session.VAD: [buffer, bufferIndex, voiceCounter, silenceCounter]
  \* --- StreamingSTT objects, by client id
  nclients,        \* objects constructed so far
  sconn,           \* s.conn # nil
  isConnected, config,
  transcripts, errors, chClosed,
  stmuW, stmuR,    \* s.mu: writer, readers
  rpc, rctx, rsid, rmsg,   \* handleMessages goroutine: pc, ctx, currentSessionID, pending send
  \* --- handler goroutines
  hpc, hresult, hsock, hcl, hframe, rci,
  inUtterance, reconnectAttempts, continuousSilenceCount,
  startAge, voiceAge,
  \* --- listenForTranscripts goroutines
  lpc, lclient, lctx, lres,
  \* --- CloseSession request
  cpc, ccl, ncloses,
  \* --- the browser and the remote ASR
  sock,            \* socket h: "none" | "open" | "peerclosed" | "closed"
  nframes, nmsgs, nticks,
  \* --- history (observations only; no action reads them)
  readLog,         \* frames read from the socket, with the VAD's answer
  sendLog,         \* calls of SendAudio
  emitted,         \* events the readers put on a transcripts channel
  offered,         \* WriteJSON calls of handleTranscript
  rounds,          \* reconnect rounds of handler h since its last utterance start
  closeReturned,   \* a CloseSession request has answered 200
  lastAdmit,       \* what the last admitting HandleWebSocket saw and left
  turnsRead,       \* the Turn messages with text the readers got from the remote ASR
  \* --- a call of StreamingSTT.Connect followed dial by dial
  connecting,      \* the call in progress: [pc, retryCount, retryDelay]
  connects         \* the calls so far: dials, sleeps, readers started, result

mgrVars == <<sessions, created, imMu, crashed, scn>>
sessVars == <<Status, WebSocketConn, StreamingSTT, ctx, AssemblyAIID,
              TranscriptCount, UtteranceCount, Transcript, sessMu, cancelled, vad>>
sttVars == <<nclients, sconn, isConnected, config, transcripts, errors, chClosed,
             stmuW, stmuR, rpc, rctx, rsid, rmsg>>
handlerVars == <<hpc, hresult, hsock, hcl, hframe, rci, inUtterance, reconnectAttempts,
                 continuousSilenceCount, startAge, voiceAge>>
hCtl == <<hresult, hsock, hcl, hframe, rci>>
hUtt == <<inUtterance, reconnectAttempts, continuousSilenceCount, startAge, voiceAge>>
sttObj == <<nclients, sconn, isConnected, config, stmuW, stmuR>>
sttChan == <<transcripts, errors, chClosed>>
sttReader == <<rpc, rctx, rsid, rmsg>>
listenerVars == <<lpc, lclient, lctx, lres>>
closerVars == <<cpc, ccl, ncloses>>
envVars == <<sock, nframes, nmsgs, nticks>>
histVars == <<readLog, sendLog, emitted, offered, rounds, closeReturned, lastAdmit, turnsRead>>
connVars == <<connecting, connects>>
vars == <<mgrVars, sessVars, sttVars, handlerVars, listenerVars, closerVars, envVars, histVars,
          connVars>>

\* ------------------------------------------------------------------ helpers
Alive == ~crashed

\* (variant: session.mu.Lock() does not wait)
SessMuNoWait == TRUE

\* sync.Mutex / sync.RWMutex admission
SessMuFree == sessMu = NoThread
ImMuFree == imMu = NoThread
StLockable(c) == stmuW[c] = NoThread /\ stmuR[c] = {}
StRLockable(c) == stmuW[c] = NoThread

\* context.Context: Done() is closed once cancel() has been called
Done(x) == x \in cancelled

\* (variant: Close leaves s.conn set)
ClosedConnKept(c) == sconn

\* StreamingSTT.Close under s.mu: conn := s.conn; s.conn = nil
ClosedConn(c) == [sconn EXCEPT ![c] = FALSE]

\* websocket.Conn.Close() on the server side
CloseSock(s) == [sock EXCEPT ![s] = "closed"]

\* (variant: a "connected" session is taken over like a "disconnected" one)
AdmissionTakeover(status) ==
  CASE status \in {"disconnected", "connected"} -> "reconnect"
    [] status = "initialized" -> "first"
    [] OTHER -> "invalid"

\* switch session.Status of HandleWebSocket
Admission(status) ==
  CASE status = "disconnected" -> "reconnect"
    [] status = "connected" -> "reject"
    [] status = "initialized" -> "first"
    [] OTHER -> "invalid"

\* ---------------------------------------------------------------------- VAD
NewVAD == [buffer |-> [i \in 1..bufferSize |-> FALSE], bufferIndex |-> 0,
           voiceCounter |-> 0, silenceCounter |-> 0]

\* (variant: the answer follows the frame's own energy, not the window majority)
DetectUnsmoothed(v, raw) ==
  LET buf == [v.buffer EXCEPT ![v.bufferIndex + 1] = raw]
      idx == (v.bufferIndex + 1) % bufferSize
  IN IF raw
       THEN [state |-> [buffer |-> buf, bufferIndex |-> idx,
                        voiceCounter |-> v.voiceCounter + 1, silenceCounter |-> 0],
             hasVoice |-> v.voiceCounter + 1 >= minVoiceDuration]
       ELSE [state |-> [buffer |-> buf, bufferIndex |-> idx,
                        voiceCounter |-> 0, silenceCounter |-> v.silenceCounter + 1],
             hasVoice |-> v.silenceCounter + 1 < minSilenceDuration]

\* the state DetectActivity leaves and the answer it returns, for a frame whose
\* RMS energy is above (raw = TRUE) or not above the threshold
DetectActivity(v, raw) ==
  LET buf == [v.buffer EXCEPT ![v.bufferIndex + 1] = raw]
      idx == (v.bufferIndex + 1) % bufferSize
      trueCount == Cardinality({i \in 1..bufferSize : buf[i]})
      smoothedVoice == trueCount > bufferSize \div 2
  IN IF smoothedVoice
       THEN [state |-> [buffer |-> buf, bufferIndex |-> idx,
                        voiceCounter |-> v.voiceCounter + 1, silenceCounter |-> 0],
             hasVoice |-> v.voiceCounter + 1 >= minVoiceDuration]
       ELSE [state |-> [buffer |-> buf, bufferIndex |-> idx,
                        voiceCounter |-> 0, silenceCounter |-> v.silenceCounter + 1],
             hasVoice |-> v.silenceCounter + 1 < minSilenceDuration]

\* (variant: a frame shorter than 2 bytes is taken as a frame below the threshold)
InvalidFrameCounted(v) == DetectActivity(v, FALSE).state

\* if len(audioData) < 2 { return false, err }: the state DetectActivity leaves
InvalidFrame(v) == v

\* ------------------------------------------------------------------- Init
Start ==
  /\ sessions = {} /\ created = FALSE /\ imMu = NoThread /\ crashed = FALSE
  /\ Status = "none" /\ WebSocketConn = 0 /\ StreamingSTT = 0 /\ ctx = 0
  /\ AssemblyAIID = 0 /\ TranscriptCount = 0 /\ UtteranceCount = 0
  /\ Transcript = <<>> /\ sessMu = NoThread /\ cancelled = {} /\ vad = NewVAD
  /\ nclients = 0
  /\ sconn = [c \in Clients |-> FALSE]
  /\ isConnected = [c \in Clients |-> FALSE]
  /\ config = [c \in Clients |-> DefaultConfig]
  /\ transcripts = [c \in Clients |-> <<>>]
  /\ errors = [c \in Clients |-> <<>>]
  /\ chClosed = [c \in Clients |-> FALSE]
  /\ stmuW = [c \in Clients |-> NoThread]
  /\ stmuR = [c \in Clients |-> {}]
  /\ rpc = [c \in Clients |-> "none"]
  /\ rctx = [c \in Clients |-> 0]
  /\ rsid = [c \in Clients |-> 0]
  /\ rmsg = [c \in Clients |-> <<>>]
  /\ hpc = [h \in Handlers |-> "idle"]
  /\ hresult = [h \in Handlers |-> ""]
  /\ hsock = [h \in Handlers |-> 0]
  /\ hcl = [h \in Handlers |-> 0]
  /\ hframe = [h \in Handlers |-> 0]
  /\ rci = [h \in Handlers |-> 0]
  /\ inUtterance = [h \in Handlers |-> FALSE]
  /\ reconnectAttempts = [h \in Handlers |-> 0]
  /\ continuousSilenceCount = [h \in Handlers |-> 0]
  /\ startAge = [h \in Handlers |-> 0]
  /\ voiceAge = [h \in Handlers |-> 0]
  /\ lpc = [h \in Handlers |-> "off"]
  /\ lclient = [h \in Handlers |-> 0]
  /\ lctx = [h \in Handlers |-> 0]
  /\ lres = [h \in Handlers |-> <<>>]
  /\ cpc = "idle" /\ ccl = 0 /\ ncloses = 0
  /\ sock = [h \in Handlers |-> "none"]
  /\ nframes = 0 /\ nmsgs = 0 /\ nticks = 0
  /\ readLog = <<>> /\ sendLog = <<>> /\ emitted = <<>> /\ offered = <<>>
  /\ rounds = [h \in Handlers |-> 0]
  /\ closeReturned = FALSE
  /\ lastAdmit = <<>>
  /\ turnsRead = <<>>
  /\ connecting = [pc |-> "idle", retryCount |-> 0, retryDelay |-> 0]
  /\ connects = <<>>

Init == scn \in Scenarios /\ Start

\* ------------------------------------------------- im.InitializeSession
\* POST /session/init: registers the session with a fresh StreamingSTT, a fresh
\* context and a fresh VAD.
InitializeSession(cfg) ==
  /\ Alive /\ ~created /\ ImMuFree
  /\ cfg \in scn.cfgs
  /\ created' = TRUE
  /\ sessions' = {"s"}
  /\ Status' = "initialized"
  /\ nclients' = 1
  /\ StreamingSTT' = 1
  /\ config' = [config EXCEPT ![1] = cfg]
  /\ ctx' = 0
  /\ vad' = NewVAD
  /\ UNCHANGED <<imMu, crashed, scn, WebSocketConn, AssemblyAIID, TranscriptCount,
                 UtteranceCount, Transcript, sessMu, cancelled>>
  /\ UNCHANGED <<sconn, isConnected, transcripts, errors, chClosed, stmuW, stmuR,
                 rpc, rctx, rsid, rmsg>>
  /\ UNCHANGED <<handlerVars, listenerVars, closerVars, envVars, histVars>>
  /\ UNCHANGED connVars

\* ------------------------------------------------- StreamingSTT.Connect
\* Connect holds s.mu for its whole run (three dials with their delays), so it
\* is one step.  It can succeed only on a client that is not connected, with a
\* context that is not cancelled, and when the ASR can be reached.
CanConnect(c, x) == ~isConnected[c] /\ ~Done(x) /\ "down" \notin scn.faults

\* ------------------------------------------------- im.HandleWebSocket
\* im.mu.RLock(); session, exists := im.sessions[sessionID]
HwLookup(h) ==
  /\ Alive /\ hpc[h] = "idle" /\ h <= scn.attach /\ ImMuFree
  /\ IF h = 1 THEN TRUE                          \* requests are numbered as they arrive
              ELSE hpc[h - 1] # "idle" /\ nframes >= scn.attachAfter
  /\ IF sessions = {}
       THEN /\ hpc' = [hpc EXCEPT ![h] = "done"]
            /\ hresult' = [hresult EXCEPT ![h] = "404"]
       ELSE /\ hpc' = [hpc EXCEPT ![h] = "hw_lock"]
            /\ UNCHANGED hresult
  /\ UNCHANGED <<hsock, hcl, hframe, rci, inUtterance, reconnectAttempts,
                 continuousSilenceCount, startAge, voiceAge>>
  /\ UNCHANGED <<mgrVars, sessVars, sttVars, listenerVars, closerVars, envVars, histVars>>
  /\ UNCHANGED connVars

\* session.mu.Lock(); switch session.Status; close any existing connection
HwAdmit(h) ==
  /\ Alive /\ hpc[h] = "hw_lock" /\ SessMuFree
  /\ LET a == Admission(Status) IN
     IF a = "reject" \/ a = "invalid"
       THEN /\ hpc' = [hpc EXCEPT ![h] = "done"]
            /\ hresult' = [hresult EXCEPT ![h] = IF a = "reject" THEN "409" ELSE "400"]
            /\ UNCHANGED <<sessMu, WebSocketConn, sock, lastAdmit>>
       ELSE /\ sessMu' = HandlerT(h)
            /\ IF WebSocketConn # 0
                 THEN sock' = CloseSock(WebSocketConn) /\ WebSocketConn' = 0
                 ELSE UNCHANGED <<sock, WebSocketConn>>
            /\ hpc' = [hpc EXCEPT ![h] = IF a = "reconnect" THEN "hw_close" ELSE "hw_upgrade"]
            /\ lastAdmit' = [h |-> h, from |-> Status, client |-> StreamingSTT,
                             cfg |-> config[StreamingSTT], ctx |-> ctx,
                             log |-> Transcript, tc |-> TranscriptCount,
                             uc |-> UtteranceCount, made |-> nclients]
            /\ UNCHANGED hresult
  /\ UNCHANGED <<hsock, hcl, hframe, rci, inUtterance, reconnectAttempts,
                 continuousSilenceCount, startAge, voiceAge>>
  /\ UNCHANGED <<Status, StreamingSTT, ctx, AssemblyAIID, TranscriptCount, UtteranceCount,
                 Transcript, cancelled, vad>>
  /\ UNCHANGED <<mgrVars, sttVars, listenerVars, closerVars, nframes, nmsgs, nticks>>
  /\ UNCHANGED <<readLog, sendLog, emitted, offered, rounds, closeReturned, turnsRead>>
  /\ UNCHANGED connVars

\* session.StreamingSTT.Close(), first half: under s.mu, conn := s.conn;
\* s.isConnected = false; s.conn = nil.  A nil conn ends Close here.
HwCloseA(h) ==
  /\ Alive /\ hpc[h] = "hw_close"
  /\ LET c == StreamingSTT IN
     /\ StLockable(c)
     /\ sconn' = ClosedConn(c)
     /\ isConnected' = [isConnected EXCEPT ![c] = FALSE]
     /\ hcl' = [hcl EXCEPT ![h] = IF sconn[c] THEN c ELSE 0]
     /\ hpc' = [hpc EXCEPT ![h] = IF sconn[c] THEN "hw_close_b" ELSE "hw_reset"]
  /\ UNCHANGED <<hresult, hsock, hframe, rci, inUtterance, reconnectAttempts,
                 continuousSilenceCount, startAge, voiceAge>>
  /\ UNCHANGED <<nclients, config, transcripts, errors, chClosed, stmuW, stmuR,
                 rpc, rctx, rsid, rmsg>>
  /\ UNCHANGED <<mgrVars, sessVars, listenerVars, closerVars, envVars, histVars>>
  /\ UNCHANGED connVars

\* Close, second half: SessionTermination, conn.Close, close(s.transcripts),
\* close(s.errors)
HwCloseB(h) ==
  /\ Alive /\ hpc[h] = "hw_close_b"
  /\ chClosed' = [chClosed EXCEPT ![hcl[h]] = TRUE]
  /\ hpc' = [hpc EXCEPT ![h] = "hw_reset"]
  /\ hcl' = [hcl EXCEPT ![h] = 0]
  /\ UNCHANGED <<hresult, hsock, hframe, rci, inUtterance, reconnectAttempts,
                 continuousSilenceCount, startAge, voiceAge>>
  /\ UNCHANGED <<nclients, sconn, isConnected, config, transcripts, errors, stmuW, stmuR,
                 rpc, rctx, rsid, rmsg>>
  /\ UNCHANGED <<mgrVars, sessVars, listenerVars, closerVars, envVars, histVars>>
  /\ UNCHANGED connVars

\* the config a re-attachment gives the new StreamingSTT
ReattachConfig(old) == config[old]

\* session.ctx, session.cancel = context.WithCancel(...);
\* session.StreamingSTT = stt.NewStreamingSTT(session.StreamingSTT.GetConfig())
HwReset(h) ==
  /\ Alive /\ hpc[h] = "hw_reset"
  /\ nclients < scn.clients
  /\ StRLockable(StreamingSTT)
  /\ ctx' = h
  /\ nclients' = nclients + 1
  /\ StreamingSTT' = nclients + 1
  /\ config' = [config EXCEPT ![nclients + 1] = ReattachConfig(StreamingSTT)]
  /\ hpc' = [hpc EXCEPT ![h] = "hw_upgrade"]
  /\ UNCHANGED <<hresult, hsock, hcl, hframe, rci, inUtterance, reconnectAttempts,
                 continuousSilenceCount, startAge, voiceAge>>
  /\ UNCHANGED <<sconn, isConnected, transcripts, errors, chClosed, stmuW, stmuR,
                 rpc, rctx, rsid, rmsg>>
  /\ UNCHANGED <<Status, WebSocketConn, AssemblyAIID, TranscriptCount, UtteranceCount,
                 Transcript, sessMu, cancelled, vad>>
  /\ UNCHANGED <<mgrVars, listenerVars, closerVars, envVars, histVars>>
  /\ UNCHANGED connVars

\* im.upgrader.Upgrade succeeds: session.WebSocketConn = conn;
\* session.Status = "connected"; session.mu.Unlock()
HwUpgradeOk(h) ==
  /\ Alive /\ hpc[h] = "hw_upgrade"
  /\ sock' = [sock EXCEPT ![h] = "open"]
  /\ WebSocketConn' = h
  /\ Status' = "connected"
  /\ sessMu' = NoThread
  /\ hpc' = [hpc EXCEPT ![h] = "ps_connect"]
  /\ hresult' = [hresult EXCEPT ![h] = "attached"]
  /\ UNCHANGED <<hsock, hcl, hframe, rci, inUtterance, reconnectAttempts,
                 continuousSilenceCount, startAge, voiceAge>>
  /\ UNCHANGED <<StreamingSTT, ctx, AssemblyAIID, TranscriptCount, UtteranceCount,
                 Transcript, cancelled, vad>>
  /\ UNCHANGED <<mgrVars, sttVars, listenerVars, closerVars, nframes, nmsgs, nticks, histVars>>
  /\ UNCHANGED connVars

\* im.upgrader.Upgrade fails: session.mu.Unlock(); return
HwUpgradeFail(h) ==
  /\ Alive /\ hpc[h] = "hw_upgrade"
  /\ "upgrade" \in scn.faults
  /\ sessMu' = NoThread
  /\ hpc' = [hpc EXCEPT ![h] = "done"]
  /\ hresult' = [hresult EXCEPT ![h] = "upgrade_failed"]
  /\ UNCHANGED <<hsock, hcl, hframe, rci, inUtterance, reconnectAttempts,
                 continuousSilenceCount, startAge, voiceAge>>
  /\ UNCHANGED <<Status, WebSocketConn, StreamingSTT, ctx, AssemblyAIID, TranscriptCount,
                 UtteranceCount, Transcript, cancelled, vad>>
  /\ UNCHANGED <<mgrVars, sttVars, listenerVars, closerVars, envVars, histVars>>
  /\ UNCHANGED connVars

\* ------------------------------------------------- im.processSession
\* the state of a listenForTranscripts goroutine at the top of its loop: it
\* returns if session.ctx is done, else it waits on the channels of the current
\* session.StreamingSTT and on the current session.ctx
ListenerLoop ==
  IF Done(ctx) THEN [pc |-> "done", cl |-> 0, cx |-> 0]
               ELSE [pc |-> "inner", cl |-> StreamingSTT, cx |-> ctx]

\* session.StreamingSTT.Connect(session.ctx) succeeds: the client's reader and
\* the session's transcript listener are started
PsConnectOk(h) ==
  /\ Alive /\ hpc[h] = "ps_connect"
  /\ LET c == StreamingSTT IN
     /\ StLockable(c) /\ CanConnect(c, ctx)
     /\ rpc[c] \in {"none", "done"}
     /\ sconn' = [sconn EXCEPT ![c] = TRUE]
     /\ isConnected' = [isConnected EXCEPT ![c] = TRUE]
     /\ rpc' = [rpc EXCEPT ![c] = "top"]
     /\ rctx' = [rctx EXCEPT ![c] = ctx]
     /\ rsid' = [rsid EXCEPT ![c] = 0]
  /\ lpc' = [lpc EXCEPT ![h] = "outer"]
  /\ hpc' = [hpc EXCEPT ![h] = "loop"]
  /\ UNCHANGED <<hresult, hsock, hcl, hframe, rci, inUtterance, reconnectAttempts,
                 continuousSilenceCount, startAge, voiceAge>>
  /\ UNCHANGED <<nclients, config, transcripts, errors, chClosed, stmuW, stmuR, rmsg>>
  /\ UNCHANGED <<lclient, lctx, lres>>
  /\ UNCHANGED <<mgrVars, sessVars, closerVars, envVars, histVars>>
  /\ UNCHANGED connVars

\* Connect fails ("already connected", or three failed dials): processSession
\* logs and returns; no listener is started
PsConnectFail(h) ==
  /\ Alive /\ hpc[h] = "ps_connect"
  /\ StLockable(StreamingSTT)
  /\ IF CanConnect(StreamingSTT, ctx) THEN "dial" \in scn.faults ELSE TRUE
  /\ hpc' = [hpc EXCEPT ![h] = "loop"]
  /\ UNCHANGED <<hresult, hsock, hcl, hframe, rci, inUtterance, reconnectAttempts,
                 continuousSilenceCount, startAge, voiceAge>>
  /\ UNCHANGED <<mgrVars, sessVars, sttVars, listenerVars, closerVars, envVars, histVars>>
  /\ UNCHANGED connVars

\* ------------------------------------------------- im.handleAudioStream
StartAges == 0..2   \* now - utteranceStartTime: <= 500 ms, <= 30 s, > 30 s
VoiceAges == 0..1   \* now - lastVoiceTime: < 100 ms, >= 100 ms
\* reconnectSTTOnError gives up instead of starting another round
GiveUp(attempts) == attempts >= maxReconnectAttempts

\* (variant: no maximum utterance duration)
MaxDurationIgnored(open, age) == FALSE

\* inUtterance && now.Sub(utteranceStartTime) > maxUtteranceDuration
MaxDurationReached(open, age) == open /\ age = 2

\* (variant: the utterance ends one counted tick later)
SilenceBoundaryLate(count) == count > maxSilenceCount

\* the silence ticker ends the utterance
SilenceBoundary(count) == count >= maxSilenceCount

\* (variant: an utterance boundary starts a reconnect round)
BoundaryReconnects == "rc_sleep"

\* where handleAudioStream goes on after an utterance boundary: it only clears
\* inUtterance and stays in its loop
AfterBoundary == "loop"

\* select: case <-session.ctx.Done(): return (the deferred cleanup runs next)
LoopCtxDone(h) ==
  /\ Alive /\ hpc[h] = "loop" /\ Done(ctx)
  /\ hpc' = [hpc EXCEPT ![h] = "cl_lock"]
  /\ UNCHANGED <<hCtl, hUtt>>
  /\ UNCHANGED <<mgrVars, sessVars, sttVars, listenerVars, closerVars, envVars, histVars>>
  /\ UNCHANGED connVars

\* select: case <-silenceTimer.C, while an utterance is open
LoopTick(h) ==
  /\ Alive /\ hpc[h] = "loop" /\ inUtterance[h]
  /\ nticks < scn.ticks
  /\ nticks' = nticks + 1
  /\ \E a \in StartAges, v \in VoiceAges :
       /\ a >= startAge[h] /\ v >= voiceAge[h] /\ a <= scn.age
       /\ LET counted == a >= 1 /\ v >= 1
              n == continuousSilenceCount[h] + 1
              ends == counted /\ SilenceBoundary(n)
          IN /\ continuousSilenceCount' =
                  [continuousSilenceCount EXCEPT ![h] = IF counted THEN n ELSE @]
             /\ inUtterance' = [inUtterance EXCEPT ![h] = ~ends]
             /\ startAge' = [startAge EXCEPT ![h] = IF ends THEN 0 ELSE a]
             /\ voiceAge' = [voiceAge EXCEPT ![h] = IF ends THEN 0 ELSE v]
             /\ hpc' = [hpc EXCEPT ![h] = IF ends THEN AfterBoundary ELSE "loop"]
  /\ UNCHANGED <<hCtl, reconnectAttempts>>
  /\ UNCHANGED <<mgrVars, sessVars, sttVars, listenerVars, closerVars, sock, nframes, nmsgs,
                 histVars>>
  /\ UNCHANGED connVars

\* select: default: session.WebSocketConn.ReadMessage() is called.  A nil
\* connection panics; net/http recovers the handler after its deferred cleanup.
LoopDefault(h) ==
  /\ Alive /\ hpc[h] = "loop" /\ ~Done(ctx)
  /\ IF WebSocketConn = 0
       THEN /\ hpc' = [hpc EXCEPT ![h] = "cl_lock"]
            /\ hresult' = [hresult EXCEPT ![h] = "panic"]
            /\ UNCHANGED hsock
       ELSE /\ hpc' = [hpc EXCEPT ![h] = "reading"]
            /\ hsock' = [hsock EXCEPT ![h] = WebSocketConn]
            /\ UNCHANGED hresult
  /\ UNCHANGED <<hcl, hframe, rci, hUtt>>
  /\ UNCHANGED <<mgrVars, sessVars, sttVars, listenerVars, closerVars, envVars, histVars>>
  /\ UNCHANGED connVars

\* ReadMessage returns a frame: VAD, the max-duration check, and the decision
\* to send the frame
ReadFrame(h) ==
  /\ Alive /\ hpc[h] = "reading" /\ sock[hsock[h]] = "open"
  /\ nframes < scn.frames
  /\ nframes' = nframes + 1
  /\ \E kind \in scn.kinds :
       IF kind = "short"
         THEN \* len(audioData) < 2: VAD error, frame dropped
              /\ readLog' = Append(readLog, [f |-> nframes + 1, vad |-> "err"])
              /\ vad' = InvalidFrame(vad)
              /\ hpc' = [hpc EXCEPT ![h] = "loop"]
              /\ UNCHANGED <<hframe, inUtterance, startAge, voiceAge>>
         ELSE LET r == DetectActivity(vad, kind = "loud") IN
              /\ vad' = r.state
              /\ readLog' = Append(readLog, [f |-> nframes + 1,
                                   vad |-> IF r.hasVoice THEN "true" ELSE "false"])
              /\ \E a \in StartAges :
                   /\ a >= startAge[h] /\ a <= scn.age
                   /\ inUtterance[h] \/ a = startAge[h]
                   /\ IF MaxDurationReached(inUtterance[h], a)
                        THEN \* maximum utterance duration reached
                             /\ inUtterance' = [inUtterance EXCEPT ![h] = FALSE]
                             /\ startAge' = [startAge EXCEPT ![h] = 0]
                             /\ voiceAge' = [voiceAge EXCEPT ![h] = 0]
                             /\ hpc' = [hpc EXCEPT ![h] = AfterBoundary]
                             /\ UNCHANGED hframe
                        ELSE /\ startAge' = [startAge EXCEPT ![h] = a]
                             /\ UNCHANGED <<inUtterance, voiceAge>>
                             /\ IF r.hasVoice
                                  THEN /\ hpc' = [hpc EXCEPT ![h] = "send"]
                                       /\ hframe' = [hframe EXCEPT ![h] = nframes + 1]
                                  ELSE /\ hpc' = [hpc EXCEPT ![h] = "loop"]
                                       /\ UNCHANGED hframe
  /\ hsock' = [hsock EXCEPT ![h] = 0]
  /\ UNCHANGED <<hresult, hcl, rci, reconnectAttempts, continuousSilenceCount>>
  /\ UNCHANGED <<Status, WebSocketConn, StreamingSTT, ctx, AssemblyAIID, TranscriptCount,
                 UtteranceCount, Transcript, sessMu, cancelled>>
  /\ UNCHANGED <<mgrVars, sttVars, listenerVars, closerVars, sock, nmsgs, nticks>>
  /\ UNCHANGED <<sendLog, emitted, offered, rounds, closeReturned, lastAdmit, turnsRead>>
  /\ UNCHANGED connVars

\* ReadMessage returns an error because the server side has closed the socket
ReadError(h) ==
  /\ Alive /\ hpc[h] = "reading" /\ sock[hsock[h]] = "closed"
  /\ hpc' = [hpc EXCEPT ![h] = "cl_lock"]
  /\ hsock' = [hsock EXCEPT ![h] = 0]
  /\ UNCHANGED <<hresult, hcl, hframe, rci, hUtt>>
  /\ UNCHANGED <<mgrVars, sessVars, sttVars, listenerVars, closerVars, envVars, histVars>>
  /\ UNCHANGED connVars

\* ReadMessage returns an error because the browser has closed the socket (EOF
\* or a close frame)
PeerClose(h) ==
  /\ Alive /\ hpc[h] = "reading" /\ sock[hsock[h]] = "open"
  /\ "peer" \in scn.faults
  /\ sock' = [sock EXCEPT ![hsock[h]] = "peerclosed"]
  /\ hpc' = [hpc EXCEPT ![h] = "cl_lock"]
  /\ hsock' = [hsock EXCEPT ![h] = 0]
  /\ UNCHANGED <<hresult, hcl, hframe, rci, hUtt>>
  /\ UNCHANGED <<nframes, nmsgs, nticks>>
  /\ UNCHANGED <<mgrVars, sessVars, sttVars, listenerVars, closerVars, histVars>>
  /\ UNCHANGED connVars

\* the outcome of the reconnectSTTOnError call that follows a send error
AfterSendError(h) ==
  IF GiveUp(reconnectAttempts[h])
    THEN /\ hpc' = [hpc EXCEPT ![h] = "cl_lock"]
         /\ hresult' = [hresult EXCEPT ![h] = "asr_failed"]
         /\ UNCHANGED <<reconnectAttempts, rounds>>
    ELSE /\ hpc' = [hpc EXCEPT ![h] = "rc_sleep"]
         /\ reconnectAttempts' = [reconnectAttempts EXCEPT ![h] = @ + 1]
         /\ rounds' = [rounds EXCEPT ![h] = @ + 1]
         /\ UNCHANGED hresult

\* (variant: reconnectAttempts is not reset when an utterance starts)
AttemptsKept(h) == reconnectAttempts[h]

\* reconnectAttempts after a successful send: reset when the send starts an
\* utterance
AttemptsAfterSend(h) == IF ~inUtterance[h] THEN 0 ELSE reconnectAttempts[h]

\* session.StreamingSTT.SendAudio(audioData) succeeds; lastVoiceTime,
\* continuousSilenceCount and the utterance start are updated
SendAudioOk(h) ==
  /\ Alive /\ hpc[h] = "send"
  /\ LET c == StreamingSTT IN
     /\ StRLockable(c) /\ isConnected[c] /\ sconn[c]
     /\ sendLog' = Append(sendLog, [f |-> hframe[h], c |-> c, ok |-> TRUE,
                                   closed |-> closeReturned])
  /\ hpc' = [hpc EXCEPT ![h] = "loop"]
  /\ voiceAge' = [voiceAge EXCEPT ![h] = 0]
  /\ continuousSilenceCount' = [continuousSilenceCount EXCEPT ![h] = 0]
  /\ inUtterance' = [inUtterance EXCEPT ![h] = TRUE]
  /\ reconnectAttempts' = [reconnectAttempts EXCEPT ![h] = AttemptsAfterSend(h)]
  /\ IF ~inUtterance[h]
       THEN /\ startAge' = [startAge EXCEPT ![h] = 0]
            /\ rounds' = [rounds EXCEPT ![h] = 0]
       ELSE UNCHANGED <<startAge, rounds>>
  /\ hframe' = [hframe EXCEPT ![h] = 0]
  /\ UNCHANGED <<hresult, hsock, hcl, rci>>
  /\ UNCHANGED <<mgrVars, sessVars, sttVars, listenerVars, closerVars, envVars>>
  /\ UNCHANGED <<readLog, emitted, offered, closeReturned, lastAdmit, turnsRead>>
  /\ UNCHANGED connVars

\* SendAudio fails: the client is not connected, or conn.Write fails (then the
\* error also goes to s.errors, unless that is full); reconnectSTTOnError starts
SendAudioErr(h) ==
  /\ Alive /\ hpc[h] = "send"
  /\ LET c == StreamingSTT IN
     /\ StRLockable(c)
     /\ IF isConnected[c] /\ sconn[c] THEN "write" \in scn.faults ELSE TRUE
     /\ sendLog' = Append(sendLog, [f |-> hframe[h], c |-> c, ok |-> FALSE,
                                   closed |-> closeReturned])
     /\ IF isConnected[c] /\ sconn[c] /\ Len(errors[c]) < ErrorsCap
          THEN errors' = [errors EXCEPT ![c] = Append(@, "send")]
          ELSE UNCHANGED errors
  /\ AfterSendError(h)
  /\ hframe' = [hframe EXCEPT ![h] = 0]
  /\ UNCHANGED <<hsock, hcl, rci, inUtterance, continuousSilenceCount, startAge, voiceAge>>
  /\ UNCHANGED <<sttObj, transcripts, chClosed, sttReader>>
  /\ UNCHANGED <<mgrVars, sessVars, listenerVars, closerVars, envVars>>
  /\ UNCHANGED <<readLog, emitted, offered, closeReturned, lastAdmit, turnsRead>>
  /\ UNCHANGED connVars

\* reconnectSTTOnError after time.Sleep(reconnectDelay):
\* session.StreamingSTT.Close(), first half
RcCloseA(h) ==
  /\ Alive /\ hpc[h] = "rc_sleep"
  /\ LET c == StreamingSTT IN
     /\ StLockable(c)
     /\ sconn' = ClosedConn(c)
     /\ isConnected' = [isConnected EXCEPT ![c] = FALSE]
     /\ hcl' = [hcl EXCEPT ![h] = IF sconn[c] THEN c ELSE 0]
     /\ hpc' = [hpc EXCEPT ![h] = IF sconn[c] THEN "rc_close_b" ELSE "rc_new"]
  /\ UNCHANGED <<hresult, hsock, hframe, rci, hUtt>>
  /\ UNCHANGED <<nclients, config, stmuW, stmuR, sttChan, sttReader>>
  /\ UNCHANGED <<mgrVars, sessVars, listenerVars, closerVars, envVars, histVars>>
  /\ UNCHANGED connVars

\* Close, second half
RcCloseB(h) ==
  /\ Alive /\ hpc[h] = "rc_close_b"
  /\ chClosed' = [chClosed EXCEPT ![hcl[h]] = TRUE]
  /\ hpc' = [hpc EXCEPT ![h] = "rc_new"]
  /\ hcl' = [hcl EXCEPT ![h] = 0]
  /\ UNCHANGED <<hresult, hsock, hframe, rci, hUtt>>
  /\ UNCHANGED <<sttObj, transcripts, errors, sttReader>>
  /\ UNCHANGED <<mgrVars, sessVars, listenerVars, closerVars, envVars, histVars>>
  /\ UNCHANGED connVars

\* session.StreamingSTT = stt.NewStreamingSTT(config), with the literal config
RcNew(h) ==
  /\ Alive /\ hpc[h] = "rc_new"
  /\ nclients < scn.clients
  /\ nclients' = nclients + 1
  /\ StreamingSTT' = nclients + 1
  /\ config' = [config EXCEPT ![nclients + 1] = ReconnectConfig]
  /\ rci' = [rci EXCEPT ![h] = 0]
  /\ hpc' = [hpc EXCEPT ![h] = "rc_connect"]
  /\ UNCHANGED <<hresult, hsock, hcl, hframe, hUtt>>
  /\ UNCHANGED <<sconn, isConnected, stmuW, stmuR, sttChan, sttReader>>
  /\ UNCHANGED <<Status, WebSocketConn, ctx, AssemblyAIID, TranscriptCount, UtteranceCount,
                 Transcript, sessMu, cancelled, vad>>
  /\ UNCHANGED <<mgrVars, listenerVars, closerVars, envVars, histVars>>
  /\ UNCHANGED connVars

\* for i := 0; i < 3; i++: session.StreamingSTT.Connect(session.ctx) succeeds
RcConnectOk(h) ==
  /\ Alive /\ hpc[h] = "rc_connect"
  /\ LET c == StreamingSTT IN
     /\ StLockable(c) /\ CanConnect(c, ctx)
     /\ rpc[c] \in {"none", "done"}
     /\ sconn' = [sconn EXCEPT ![c] = TRUE]
     /\ isConnected' = [isConnected EXCEPT ![c] = TRUE]
     /\ rpc' = [rpc EXCEPT ![c] = "top"]
     /\ rctx' = [rctx EXCEPT ![c] = ctx]
     /\ rsid' = [rsid EXCEPT ![c] = 0]
  /\ hpc' = [hpc EXCEPT ![h] = "rc_clear"]
  /\ rci' = [rci EXCEPT ![h] = 0]
  /\ UNCHANGED <<hresult, hsock, hcl, hframe, hUtt>>
  /\ UNCHANGED <<nclients, config, stmuW, stmuR, sttChan, rmsg>>
  /\ UNCHANGED <<mgrVars, sessVars, listenerVars, closerVars, envVars, histVars>>
  /\ UNCHANGED connVars

\* a Connect of the retry loop fails; after the third, reconnectSTTOnError
\* returns the error and handleAudioStream returns
RcConnectFail(h) ==
  /\ Alive /\ hpc[h] = "rc_connect"
  /\ StLockable(StreamingSTT)
  /\ IF CanConnect(StreamingSTT, ctx) THEN "dial" \in scn.faults ELSE TRUE
  /\ IF rci[h] < ConnectTries - 1
       THEN /\ rci' = [rci EXCEPT ![h] = @ + 1]
            /\ UNCHANGED <<hpc, hresult>>
       ELSE /\ hpc' = [hpc EXCEPT ![h] = "cl_lock"]
            /\ hresult' = [hresult EXCEPT ![h] = "asr_failed"]
            /\ rci' = [rci EXCEPT ![h] = 0]
  /\ UNCHANGED <<hsock, hcl, hframe, hUtt>>
  /\ UNCHANGED <<mgrVars, sessVars, sttVars, listenerVars, closerVars, envVars, histVars>>
  /\ UNCHANGED connVars

\* session.mu.Lock(); session.AssemblyAIID = ""; session.mu.Unlock()
RcClear(h) ==
  /\ Alive /\ hpc[h] = "rc_clear" /\ SessMuFree
  /\ AssemblyAIID' = 0
  /\ hpc' = [hpc EXCEPT ![h] = "loop"]
  /\ UNCHANGED <<hCtl, hUtt>>
  /\ UNCHANGED <<Status, WebSocketConn, StreamingSTT, ctx, TranscriptCount, UtteranceCount,
                 Transcript, sessMu, cancelled, vad>>
  /\ UNCHANGED <<mgrVars, sttVars, listenerVars, closerVars, envVars, histVars>>
  /\ UNCHANGED connVars

\* the locals of handleAudioStream once it has returned
HandlerReturns(h) ==
  /\ inUtterance' = [inUtterance EXCEPT ![h] = FALSE]
  /\ reconnectAttempts' = [reconnectAttempts EXCEPT ![h] = 0]
  /\ continuousSilenceCount' = [continuousSilenceCount EXCEPT ![h] = 0]
  /\ startAge' = [startAge EXCEPT ![h] = 0]
  /\ voiceAge' = [voiceAge EXCEPT ![h] = 0]
  /\ rounds' = [rounds EXCEPT ![h] = 0]

\* ---- the deferred cleanup of handleAudioStream
\* session.mu.Lock(); close and clear session.WebSocketConn;
\* session.Status = "disconnected"
ClLock(h) ==
  /\ Alive /\ hpc[h] = "cl_lock" /\ SessMuFree
  /\ sessMu' = HandlerT(h)
  /\ IF WebSocketConn # 0
       THEN sock' = CloseSock(WebSocketConn) /\ WebSocketConn' = 0
       ELSE UNCHANGED <<sock, WebSocketConn>>
  /\ Status' = "disconnected"
  /\ hpc' = [hpc EXCEPT ![h] = "cl_close"]
  /\ UNCHANGED <<hCtl, hUtt>>
  /\ UNCHANGED <<StreamingSTT, ctx, AssemblyAIID, TranscriptCount, UtteranceCount,
                 Transcript, cancelled, vad>>
  /\ UNCHANGED <<mgrVars, sttVars, listenerVars, closerVars, nframes, nmsgs, nticks, histVars>>
  /\ UNCHANGED connVars

\* session.StreamingSTT.Close(), first half; with a nil conn Close returns and
\* session.cancel(); session.mu.Unlock() follow at once
ClCloseA(h) ==
  /\ Alive /\ hpc[h] = "cl_close"
  /\ LET c == StreamingSTT IN
     /\ StLockable(c)
     /\ sconn' = ClosedConn(c)
     /\ isConnected' = [isConnected EXCEPT ![c] = FALSE]
     /\ hcl' = [hcl EXCEPT ![h] = IF sconn[c] THEN c ELSE 0]
     /\ IF sconn[c]
          THEN /\ hpc' = [hpc EXCEPT ![h] = "cl_close_b"]
               /\ UNCHANGED <<cancelled, sessMu, hUtt, rounds>>
          ELSE /\ hpc' = [hpc EXCEPT ![h] = "done"]
               /\ cancelled' = cancelled \cup {ctx}
               /\ sessMu' = NoThread
               /\ HandlerReturns(h)
  /\ UNCHANGED <<hresult, hsock, hframe, rci>>
  /\ UNCHANGED <<nclients, config, stmuW, stmuR, sttChan, sttReader>>
  /\ UNCHANGED <<Status, WebSocketConn, StreamingSTT, ctx, AssemblyAIID, TranscriptCount,
                 UtteranceCount, Transcript, vad>>
  /\ UNCHANGED <<mgrVars, listenerVars, closerVars, envVars>>
  /\ UNCHANGED <<readLog, sendLog, emitted, offered, closeReturned, lastAdmit, turnsRead>>
  /\ UNCHANGED connVars

\* Close, second half
ClCloseB(h) ==
  /\ Alive /\ hpc[h] = "cl_close_b"
  /\ chClosed' = [chClosed EXCEPT ![hcl[h]] = TRUE]
  /\ hpc' = [hpc EXCEPT ![h] = "cl_cancel"]
  /\ hcl' = [hcl EXCEPT ![h] = 0]
  /\ UNCHANGED <<hresult, hsock, hframe, rci, hUtt>>
  /\ UNCHANGED <<sttObj, transcripts, errors, sttReader>>
  /\ UNCHANGED <<mgrVars, sessVars, listenerVars, closerVars, envVars, histVars>>
  /\ UNCHANGED connVars

\* session.cancel(); session.mu.Unlock()
ClCancel(h) ==
  /\ Alive /\ hpc[h] = "cl_cancel"
  /\ cancelled' = cancelled \cup {ctx}
  /\ sessMu' = NoThread
  /\ hpc' = [hpc EXCEPT ![h] = "done"]
  /\ HandlerReturns(h)
  /\ UNCHANGED <<hCtl>>
  /\ UNCHANGED <<Status, WebSocketConn, StreamingSTT, ctx, AssemblyAIID, TranscriptCount,
                 UtteranceCount, Transcript, vad>>
  /\ UNCHANGED <<mgrVars, sttVars, listenerVars, closerVars, envVars>>
  /\ UNCHANGED <<readLog, sendLog, emitted, offered, closeReturned, lastAdmit, turnsRead>>
  /\ UNCHANGED connVars

\* ------------------------------------------------- im.listenForTranscripts
ListenerGoto(h, l) ==
  /\ lpc' = [lpc EXCEPT ![h] = l.pc]
  /\ lclient' = [lclient EXCEPT ![h] = l.cl]
  /\ lctx' = [lctx EXCEPT ![h] = l.cx]

\* first pass through the outer select
ListenerStart(h) ==
  /\ Alive /\ lpc[h] = "outer"
  /\ ListenerGoto(h, ListenerLoop)
  /\ UNCHANGED lres
  /\ UNCHANGED <<mgrVars, sessVars, sttVars, handlerVars, closerVars, envVars, histVars>>
  /\ UNCHANGED connVars

\* case transcript, ok := <-session.StreamingSTT.GetTranscripts(), ok
ListenerRecvTranscript(h) ==
  /\ Alive /\ lpc[h] = "inner"
  /\ LET c == lclient[h] IN
     /\ transcripts[c] # <<>>
     /\ lres' = [lres EXCEPT ![h] = Head(transcripts[c])]
     /\ transcripts' = [transcripts EXCEPT ![c] = Tail(@)]
  /\ lpc' = [lpc EXCEPT ![h] = "handle"]
  /\ UNCHANGED <<lclient, lctx>>
  /\ UNCHANGED <<sttObj, errors, chClosed, sttReader>>
  /\ UNCHANGED <<mgrVars, sessVars, handlerVars, closerVars, envVars, histVars>>
  /\ UNCHANGED connVars

\* case err, ok := <-session.StreamingSTT.GetErrors(), ok: "connection lost" is
\* skipped, any other error is logged
ListenerRecvError(h) ==
  /\ Alive /\ lpc[h] = "inner"
  /\ LET c == lclient[h] IN
     /\ errors[c] # <<>>
     /\ errors' = [errors EXCEPT ![c] = Tail(@)]
  /\ ListenerGoto(h, ListenerLoop)
  /\ UNCHANGED lres
  /\ UNCHANGED <<sttObj, transcripts, chClosed, sttReader>>
  /\ UNCHANGED <<mgrVars, sessVars, handlerVars, closerVars, envVars, histVars>>
  /\ UNCHANGED connVars

\* a receive returns !ok (channel closed and drained): sleep 100 ms, continue
ListenerChanClosed(h) ==
  /\ Alive /\ lpc[h] = "inner"
  /\ LET c == lclient[h] IN
     chClosed[c] /\ (transcripts[c] = <<>> \/ errors[c] = <<>>)
  /\ ListenerGoto(h, ListenerLoop)
  /\ UNCHANGED lres
  /\ UNCHANGED <<mgrVars, sessVars, sttVars, handlerVars, closerVars, envVars, histVars>>
  /\ UNCHANGED connVars

\* case <-session.ctx.Done(): return
ListenerCtxDone(h) ==
  /\ Alive /\ lpc[h] = "inner" /\ Done(lctx[h])
  /\ ListenerGoto(h, [pc |-> "done", cl |-> 0, cx |-> 0])
  /\ UNCHANGED lres
  /\ UNCHANGED <<mgrVars, sessVars, sttVars, handlerVars, closerVars, envVars, histVars>>
  /\ UNCHANGED connVars

getTranscriptType(messageType) ==
  CASE messageType = "PartialTranscript" -> "partial"
    [] messageType = "FinalTranscript" -> "final"
    [] messageType = "Turn" -> "utterance"
    [] OTHER -> "unknown"

\* (variant: finals are counted as well)
CountsFinals(result) ==
  result.MessageType \in {"Turn", "FinalTranscript"} /\ result.Text # 0

\* whether handleTranscript counts the result as an utterance
CountsAsUtterance(result) == result.MessageType = "Turn" /\ result.Text # 0

\* (variant: the id of every result that carries one is taken over)
TrackedLatest(result) ==
  IF result.SessionID # 0 THEN result.SessionID ELSE AssemblyAIID

\* the session id handleTranscript leaves in session.AssemblyAIID
TrackedID(result) ==
  IF result.SessionID # 0 /\ (AssemblyAIID = 0 \/ result.MessageType = "SessionBegins")
    THEN result.SessionID ELSE AssemblyAIID

\* the WriteJSON calls handleTranscript makes for a result
Offers(result, id) ==
  IF WebSocketConn # 0
    THEN <<[ev |-> result.Text, message_type |-> result.MessageType,
            sock |-> WebSocketConn, session_id |-> id, closed |-> closeReturned]>>
    ELSE <<>>

\* (variant: the log keeps the latest entry only)
StoreLatest(log, entry) == <<entry>>

\* session.Transcript = append(session.Transcript, transcriptEntry)
StoreEntry(log, entry) == Append(log, entry)

\* im.handleTranscript(session, transcript), all of it under session.mu
ListenerHandle(h) ==
  /\ Alive /\ lpc[h] = "handle" /\ SessMuFree
  /\ LET result == lres[h] IN
     /\ AssemblyAIID' = TrackedID(result)
     /\ TranscriptCount' = TranscriptCount + 1
     /\ Transcript' = StoreEntry(Transcript, [Type |-> getTranscriptType(result.MessageType),
                                              Text |-> result.Text,
                                              SessionID |-> result.SessionID])
     /\ UtteranceCount' = IF CountsAsUtterance(result) THEN UtteranceCount + 1
                                                       ELSE UtteranceCount
     /\ offered' = offered \o Offers(result, TrackedID(result))
  /\ ListenerGoto(h, ListenerLoop)
  /\ lres' = [lres EXCEPT ![h] = <<>>]
  /\ UNCHANGED <<Status, WebSocketConn, StreamingSTT, ctx, sessMu, cancelled, vad>>
  /\ UNCHANGED <<mgrVars, sttVars, handlerVars, closerVars, envVars>>
  /\ UNCHANGED <<readLog, sendLog, emitted, rounds, closeReturned, lastAdmit, turnsRead>>
  /\ UNCHANGED connVars

\* ------------------------------------------------- StreamingSTT.handleMessages
AsrMessages == [message_type : MessageTypes, text : BOOLEAN]

\* what the reader does with a parsed message: "emit" a transcript, report an
\* "error", "begin" a session, "exit", or nothing
Dispatch(m) ==
  CASE m.message_type = "SessionBegins" -> "begin"
    [] m.message_type \in {"PartialTranscript", "FinalTranscript"} ->
         IF m.text THEN "emit" ELSE "skip"
    [] m.message_type = "Error" -> "error"
    [] m.message_type = "SessionTerminated" -> "exit"
    [] OTHER -> "skip"

\* top of the loop: return on ctx.Done(); else s.mu.RLock() and look at s.conn.
\* A nil conn: RUnlock, then "connection lost" is sent on s.errors (next step).
ReaderTop(c) ==
  /\ Alive /\ rpc[c] = "top"
  /\ IF Done(rctx[c])
       THEN /\ rpc' = [rpc EXCEPT ![c] = "done"]
            /\ rsid' = [rsid EXCEPT ![c] = 0]
            /\ UNCHANGED <<stmuR, rmsg>>
       ELSE /\ StRLockable(c)
            /\ IF sconn[c]
                 THEN /\ stmuR' = [stmuR EXCEPT ![c] = @ \cup {ReaderT(c)}]
                      /\ rpc' = [rpc EXCEPT ![c] = "read"]
                      /\ UNCHANGED <<rmsg, rsid>>
                 ELSE /\ rpc' = [rpc EXCEPT ![c] = "emit"]
                      /\ rmsg' = [rmsg EXCEPT ![c] = [ch |-> "e", item |-> [kind |-> "connection lost", n |-> 0],
                                                     block |-> TRUE, next |-> "reconnect"]]
                      /\ UNCHANGED <<stmuR, rsid>>
  /\ UNCHANGED <<nclients, sconn, isConnected, config, stmuW, sttChan, rctx>>
  /\ UNCHANGED <<mgrVars, sessVars, handlerVars, listenerVars, closerVars, envVars, histVars>>
  /\ UNCHANGED connVars

\* conn.Read(ctx) returns a message; s.mu.RUnlock(); the message is dispatched
ReaderMessage(c) ==
  /\ Alive /\ rpc[c] = "read"
  /\ nmsgs < scn.msgs
  /\ nmsgs' = nmsgs + 1
  /\ stmuR' = [stmuR EXCEPT ![c] = @ \ {ReaderT(c)}]
  /\ \E m \in AsrMessages :
       LET d == Dispatch(m) IN
       /\ m.message_type \in scn.types
       /\ turnsRead' = IF m.message_type = "Turn" /\ m.text
                         THEN Append(turnsRead, [c |-> c, n |-> nmsgs + 1])
                         ELSE turnsRead
       /\ rsid' = [rsid EXCEPT ![c] = CASE d = "begin" -> nmsgs + 1
                                        [] d = "exit" -> 0
                                        [] OTHER -> @]
       /\ rpc' = [rpc EXCEPT ![c] = CASE d \in {"emit", "error"} -> "emit"
                                      [] d = "exit" -> "done"
                                      [] OTHER -> "top"]
       /\ rmsg' = [rmsg EXCEPT ![c] =
             CASE d = "emit" -> [ch |-> "t",
                                 item |-> [MessageType |-> m.message_type,
                                           Text |-> nmsgs + 1, SessionID |-> rsid[c]],
                                 block |-> TRUE, next |-> "top"]
               [] d = "error" -> [ch |-> "e", item |-> [kind |-> "server", n |-> nmsgs + 1], block |-> FALSE,
                                  next |-> "top"]
               [] OTHER -> @]
  /\ UNCHANGED <<nclients, sconn, isConnected, config, stmuW, sttChan, rctx>>
  /\ UNCHANGED <<mgrVars, sessVars, handlerVars, listenerVars, closerVars, sock, nframes,
                 nticks>>
  /\ UNCHANGED <<readLog, sendLog, emitted, offered, rounds, closeReturned, lastAdmit>>
  /\ UNCHANGED connVars

\* conn.Read(ctx) fails with something other than a normal closure (the link
\* broke, or ctx was cancelled): RUnlock, a non-blocking send of the error, then
\* s.reconnect(ctx)
ReaderReadError(c) ==
  /\ Alive /\ rpc[c] = "read"
  /\ IF Done(rctx[c]) \/ "drop" \in scn.faults
       THEN UNCHANGED nmsgs
       ELSE nmsgs < scn.msgs /\ nmsgs' = nmsgs + 1
  /\ stmuR' = [stmuR EXCEPT ![c] = @ \ {ReaderT(c)}]
  /\ rpc' = [rpc EXCEPT ![c] = "emit"]
  /\ rmsg' = [rmsg EXCEPT ![c] = [ch |-> "e", item |-> [kind |-> "read", n |-> 0], block |-> FALSE,
                                 next |-> "reconnect"]]
  /\ UNCHANGED <<nclients, sconn, isConnected, config, stmuW, sttChan, rctx, rsid>>
  /\ UNCHANGED <<mgrVars, sessVars, handlerVars, listenerVars, closerVars, sock, nframes,
                 nticks, histVars>>
  /\ UNCHANGED connVars

\* conn.Read(ctx) fails with StatusNormalClosure: the reader returns
ReaderNormalClosure(c) ==
  /\ Alive /\ rpc[c] = "read"
  /\ nmsgs < scn.msgs
  /\ nmsgs' = nmsgs + 1
  /\ stmuR' = [stmuR EXCEPT ![c] = @ \ {ReaderT(c)}]
  /\ rpc' = [rpc EXCEPT ![c] = "done"]
  /\ rsid' = [rsid EXCEPT ![c] = 0]
  /\ UNCHANGED <<nclients, sconn, isConnected, config, stmuW, sttChan, rctx, rmsg>>
  /\ UNCHANGED <<mgrVars, sessVars, handlerVars, listenerVars, closerVars, sock, nframes,
                 nticks, histVars>>
  /\ UNCHANGED connVars

\* a send on s.transcripts or s.errors.  On a closed channel it panics; the
\* deferred recover then sends on the closed s.errors, and that panic ends the
\* process.  A blocking send waits for room; a non-blocking one drops when full.
ReaderEmit(c) ==
  /\ Alive /\ rpc[c] = "emit"
  /\ LET m == rmsg[c]
         cap == IF m.ch = "t" THEN TranscriptsCap ELSE ErrorsCap
         q == IF m.ch = "t" THEN transcripts[c] ELSE errors[c]
     IN IF chClosed[c]
          THEN /\ crashed' = TRUE
               /\ UNCHANGED <<transcripts, errors, emitted, rpc, rmsg>>
          ELSE /\ m.block => Len(q) < cap
               /\ IF m.ch = "t"
                    THEN /\ transcripts' = [transcripts EXCEPT ![c] = Append(@, m.item)]
                         /\ emitted' = Append(emitted, m.item.Text)
                         /\ UNCHANGED errors
                    ELSE /\ errors' = [errors EXCEPT ![c] =
                                         IF Len(q) < cap THEN Append(@, m.item) ELSE @]
                         /\ UNCHANGED <<transcripts, emitted>>
               /\ rpc' = [rpc EXCEPT ![c] = m.next]
               /\ rmsg' = [rmsg EXCEPT ![c] = <<>>]
               /\ UNCHANGED crashed
  /\ UNCHANGED <<sessions, created, imMu, scn>>
  /\ UNCHANGED <<sttObj, chClosed, rctx, rsid>>
  /\ UNCHANGED <<sessVars, handlerVars, listenerVars, closerVars, envVars>>
  /\ UNCHANGED <<readLog, sendLog, offered, rounds, closeReturned, lastAdmit, turnsRead>>
  /\ UNCHANGED connVars

\* s.reconnect(ctx): s.mu.Lock(); close and clear s.conn; s.isConnected = false;
\* then s.Connect(ctx), whose own s.mu.Lock() never returns: the goroutine
\* stays there holding s.mu
ReaderReconnect(c) ==
  /\ Alive /\ rpc[c] = "reconnect"
  /\ StLockable(c)
  /\ stmuW' = [stmuW EXCEPT ![c] = ReaderT(c)]
  /\ sconn' = [sconn EXCEPT ![c] = FALSE]
  /\ isConnected' = [isConnected EXCEPT ![c] = FALSE]
  /\ rpc' = [rpc EXCEPT ![c] = "stuck"]
  /\ rsid' = [rsid EXCEPT ![c] = 0]
  /\ UNCHANGED <<nclients, config, stmuR, sttChan, rctx, rmsg>>
  /\ UNCHANGED <<mgrVars, sessVars, handlerVars, listenerVars, closerVars, envVars, histVars>>
  /\ UNCHANGED connVars

\* ------------------------------------------------- im.CloseSession
\* im.mu.Lock(); look the session up; read session.Status (without session.mu).
\* Not found: 404.  Not connected: delete at once.
CsBegin ==
  /\ Alive /\ cpc = "idle" /\ ncloses < scn.close /\ ImMuFree
  /\ \A h \in 1..scn.closeAfter : hpc[h] # "idle"
  /\ ncloses' = ncloses + 1
  /\ IF sessions = {}
       THEN UNCHANGED <<sessions, imMu, cpc, closeReturned>>
       ELSE IF Status = "connected"
              THEN /\ imMu' = CloserT
                   /\ cpc' = "sesslock"
                   /\ UNCHANGED <<sessions, closeReturned>>
              ELSE /\ sessions' = {}
                   /\ closeReturned' = TRUE
                   /\ UNCHANGED <<imMu, cpc>>
  /\ UNCHANGED <<created, crashed, scn, ccl>>
  /\ UNCHANGED <<sessVars, sttVars, handlerVars, listenerVars, envVars>>
  /\ UNCHANGED <<readLog, sendLog, emitted, offered, rounds, lastAdmit, turnsRead>>
  /\ UNCHANGED connVars

\* session.mu.Lock(); close and clear the socket; Status = "disconnected";
\* session.cancel(); session.mu.Unlock()
CsSessLock ==
  /\ Alive /\ cpc = "sesslock" /\ SessMuFree
  /\ IF WebSocketConn # 0
       THEN sock' = CloseSock(WebSocketConn) /\ WebSocketConn' = 0
       ELSE UNCHANGED <<sock, WebSocketConn>>
  /\ Status' = "disconnected"
  /\ cancelled' = cancelled \cup {ctx}
  /\ cpc' = "close"
  /\ UNCHANGED <<ccl, ncloses>>
  /\ UNCHANGED <<StreamingSTT, ctx, AssemblyAIID, TranscriptCount, UtteranceCount,
                 Transcript, sessMu, vad>>
  /\ UNCHANGED <<mgrVars, sttVars, handlerVars, listenerVars, nframes, nmsgs, nticks, histVars>>
  /\ UNCHANGED connVars

\* session.StreamingSTT.Close(), first half; with a nil conn Close returns and
\* delete(im.sessions, sessionID); im.mu.Unlock() follow
CsCloseA ==
  /\ Alive /\ cpc = "close"
  /\ LET c == StreamingSTT IN
     /\ StLockable(c)
     /\ sconn' = ClosedConn(c)
     /\ isConnected' = [isConnected EXCEPT ![c] = FALSE]
     /\ ccl' = IF sconn[c] THEN c ELSE 0
     /\ IF sconn[c]
          THEN /\ cpc' = "close_b"
               /\ UNCHANGED <<sessions, imMu, closeReturned>>
          ELSE /\ cpc' = "idle"
               /\ sessions' = {}
               /\ imMu' = NoThread
               /\ closeReturned' = TRUE
  /\ UNCHANGED <<created, crashed, scn, ncloses>>
  /\ UNCHANGED <<nclients, config, stmuW, stmuR, sttChan, sttReader>>
  /\ UNCHANGED <<sessVars, handlerVars, listenerVars, envVars>>
  /\ UNCHANGED <<readLog, sendLog, emitted, offered, rounds, lastAdmit, turnsRead>>
  /\ UNCHANGED connVars

\* Close, second half; then delete(im.sessions, sessionID); im.mu.Unlock()
CsCloseB ==
  /\ Alive /\ cpc = "close_b"
  /\ chClosed' = [chClosed EXCEPT ![ccl] = TRUE]
  /\ cpc' = "idle"
  /\ sessions' = {}
  /\ imMu' = NoThread
  /\ closeReturned' = TRUE
  /\ ccl' = 0
  /\ UNCHANGED <<created, crashed, scn, ncloses>>
  /\ UNCHANGED <<sttObj, transcripts, errors, sttReader>>
  /\ UNCHANGED <<sessVars, handlerVars, listenerVars, envVars>>
  /\ UNCHANGED <<readLog, sendLog, emitted, offered, rounds, lastAdmit, turnsRead>>
  /\ UNCHANGED connVars

\* ------------------------------------------------------------------- Next
Next ==
  \/ \E cfg \in Configs : InitializeSession(cfg)
  \/ \E h \in Handlers : HwLookup(h)
  \/ \E h \in Handlers : HwAdmit(h)
  \/ \E h \in Handlers : HwCloseA(h)
  \/ \E h \in Handlers : HwCloseB(h)
  \/ \E h \in Handlers : HwReset(h)
  \/ \E h \in Handlers : HwUpgradeOk(h)
  \/ \E h \in Handlers : HwUpgradeFail(h)
  \/ \E h \in Handlers : PsConnectOk(h)
  \/ \E h \in Handlers : PsConnectFail(h)
  \/ \E h \in Handlers : LoopCtxDone(h)
  \/ \E h \in Handlers : LoopTick(h)
  \/ \E h \in Handlers : LoopDefault(h)
  \/ \E h \in Handlers : ReadFrame(h)
  \/ \E h \in Handlers : ReadError(h)
  \/ \E h \in Handlers : PeerClose(h)
  \/ \E h \in Handlers : SendAudioOk(h)
  \/ \E h \in Handlers : SendAudioErr(h)
  \/ \E h \in Handlers : RcCloseA(h)
  \/ \E h \in Handlers : RcCloseB(h)
  \/ \E h \in Handlers : RcNew(h)
  \/ \E h \in Handlers : RcConnectOk(h)
  \/ \E h \in Handlers : RcConnectFail(h)
  \/ \E h \in Handlers : RcClear(h)
  \/ \E h \in Handlers : ClLock(h)
  \/ \E h \in Handlers : ClCloseA(h)
  \/ \E h \in Handlers : ClCloseB(h)
  \/ \E h \in Handlers : ClCancel(h)
  \/ \E h \in Handlers : ListenerStart(h)
  \/ \E h \in Handlers : ListenerRecvTranscript(h)
  \/ \E h \in Handlers : ListenerRecvError(h)
  \/ \E h \in Handlers : ListenerChanClosed(h)
  \/ \E h \in Handlers : ListenerCtxDone(h)
  \/ \E h \in Handlers : ListenerHandle(h)
  \/ \E c \in Clients : ReaderTop(c)
  \/ \E c \in Clients : ReaderMessage(c)
  \/ \E c \in Clients : ReaderReadError(c)
  \/ \E c \in Clients : ReaderNormalClosure(c)
  \/ \E c \in Clients : ReaderEmit(c)
  \/ \E c \in Clients : ReaderReconnect(c)
  \/ CsBegin
  \/ CsSessLock
  \/ CsCloseA
  \/ CsCloseB

Spec == Init /\ [][Next]_vars

\* ------------------------------------------------- the fair specification
\* One attachment that the browser ends, with the goroutines scheduled fairly:
\* whatever step is possible is eventually taken.
LiveInit == scn = LiveScenario /\ Start

LiveNext ==
  \/ \E cfg \in Configs : InitializeSession(cfg)
  \/ \E h \in Handlers : HwLookup(h)
  \/ \E h \in Handlers : HwAdmit(h)
  \/ \E h \in Handlers : HwUpgradeOk(h)
  \/ \E h \in Handlers : PsConnectOk(h)
  \/ \E h \in Handlers : LoopDefault(h)
  \/ \E h \in Handlers : PeerClose(h)
  \/ \E h \in Handlers : ClLock(h)
  \/ \E h \in Handlers : ClCloseA(h)
  \/ \E h \in Handlers : ClCloseB(h)
  \/ \E h \in Handlers : ClCancel(h)
  \/ \E h \in Handlers : ListenerStart(h)
  \/ \E h \in Handlers : ListenerRecvError(h)
  \/ \E h \in Handlers : ListenerChanClosed(h)
  \/ \E h \in Handlers : ListenerCtxDone(h)
  \/ \E c \in Clients : ReaderTop(c)
  \/ \E c \in Clients : ReaderReadError(c)
  \/ \E c \in Clients : ReaderEmit(c)
  \/ \E c \in Clients : ReaderReconnect(c)

FairSpec == LiveInit /\ [][LiveNext]_vars /\ WF_vars(LiveNext)

\* ---------------------------------------------- streaming over a link that breaks
RecoverInit == scn = RecoverScenario /\ Start

RecoverNext ==
  \/ \E cfg \in Configs : InitializeSession(cfg)
  \/ \E h \in Handlers : HwLookup(h)
  \/ \E h \in Handlers : HwAdmit(h)
  \/ \E h \in Handlers : HwUpgradeOk(h)
  \/ \E h \in Handlers : PsConnectOk(h)
  \/ \E h \in Handlers : PsConnectFail(h)
  \/ \E h \in Handlers : LoopDefault(h)
  \/ \E h \in Handlers : ReadFrame(h)
  \/ \E h \in Handlers : SendAudioOk(h)
  \/ \E h \in Handlers : SendAudioErr(h)
  \/ \E h \in Handlers : RcCloseA(h)
  \/ \E h \in Handlers : RcCloseB(h)
  \/ \E h \in Handlers : RcNew(h)
  \/ \E h \in Handlers : RcConnectOk(h)
  \/ \E h \in Handlers : RcConnectFail(h)
  \/ \E h \in Handlers : RcClear(h)
  \/ \E h \in Handlers : ClLock(h)
  \/ \E h \in Handlers : ClCloseA(h)
  \/ \E h \in Handlers : ListenerStart(h)
  \/ \E h \in Handlers : ListenerRecvError(h)
  \/ \E h \in Handlers : ListenerChanClosed(h)
  \/ \E h \in Handlers : ListenerCtxDone(h)
  \/ \E c \in Clients : ReaderTop(c)
  \/ \E c \in Clients : ReaderReadError(c)
  \/ \E c \in Clients : ReaderEmit(c)
  \/ \E c \in Clients : ReaderReconnect(c)

RecoverSpec == RecoverInit /\ [][RecoverNext]_vars /\ WF_vars(RecoverNext)

\* ---------------------------------------------- CloseSession over a link that breaks
\* one attachment on which CloseSession is called while the link to the ASR
\* can break; the goroutines are scheduled fairly
ShutScenario ==
  [name |-> "shut", attach |-> 1, clients |-> 1,
   frames |-> 0, kinds |-> {}, ticks |-> 0, age |-> 0,
   msgs |-> 0, types |-> {},
   close |-> 1, cfgs |-> {DefaultConfig}, faults |-> {"drop"},
   attachAfter |-> 0, closeAfter |-> 1]

ShutInit == scn = ShutScenario /\ Start

ShutNext ==
  \/ \E cfg \in Configs : InitializeSession(cfg)
  \/ \E h \in Handlers : HwLookup(h)
  \/ \E h \in Handlers : HwAdmit(h)
  \/ \E h \in Handlers : HwUpgradeOk(h)
  \/ \E h \in Handlers : PsConnectOk(h)
  \/ \E h \in Handlers : PsConnectFail(h)
  \/ \E h \in Handlers : LoopCtxDone(h)
  \/ \E h \in Handlers : LoopDefault(h)
  \/ \E h \in Handlers : ReadError(h)
  \/ \E h \in Handlers : ClLock(h)
  \/ \E h \in Handlers : ClCloseA(h)
  \/ \E h \in Handlers : ClCloseB(h)
  \/ \E h \in Handlers : ClCancel(h)
  \/ \E h \in Handlers : ListenerStart(h)
  \/ \E h \in Handlers : ListenerRecvError(h)
  \/ \E h \in Handlers : ListenerChanClosed(h)
  \/ \E h \in Handlers : ListenerCtxDone(h)
  \/ \E c \in Clients : ReaderTop(c)
  \/ \E c \in Clients : ReaderReadError(c)
  \/ \E c \in Clients : ReaderEmit(c)
  \/ \E c \in Clients : ReaderReconnect(c)
  \/ CsBegin
  \/ CsSessLock
  \/ CsCloseA
  \/ CsCloseB

ShutSpec == ShutInit /\ [][ShutNext]_vars /\ WF_vars(ShutNext)

\* ---------------------------------------------- StreamingSTT.Connect, dial by dial
\* calls of Connect on the session's StreamingSTT, one after the other, against
\* an ASR whose dials may fail
ConnectScenario ==
  [name |-> "connect", attach |-> 0, clients |-> 1,
   frames |-> 0, kinds |-> {}, ticks |-> 0, age |-> 0,
   msgs |-> 0, types |-> {},
   close |-> 0, cfgs |-> Configs, faults |-> {"dial"},
   attachAfter |-> 0, closeAfter |-> 0]

NotConnecting == [pc |-> "idle", retryCount |-> 0, retryDelay |-> 0]

\* the record of the call in progress, and the log with that record replaced
Call == connects[Len(connects)]
Noted(r) == [connects EXCEPT ![Len(connects)] = r]

\* (variant: no backoff)
SameDelay(delay) == delay

\* retryDelay *= 2
NextDelay(delay) == delay * 2

\* s.mu.Lock(); defer s.mu.Unlock(); if s.isConnected { return error };
\* retryCount = 0, maxRetries := 3, retryDelay := time.Second
ConnectBegin(c) ==
  /\ Alive /\ created /\ c = StreamingSTT
  /\ connecting.pc = "idle" /\ Len(connects) < ConnectCalls
  /\ StLockable(c)
  /\ IF isConnected[c]
       THEN /\ connects' = Append(connects, [was |-> TRUE, dials |-> 0, sleeps |-> <<>>,
                                             spawned |-> 0, result |-> "already",
                                             after |-> TRUE])
            /\ UNCHANGED <<connecting, stmuW>>
       ELSE /\ connects' = Append(connects, [was |-> FALSE, dials |-> 0, sleeps |-> <<>>,
                                             spawned |-> 0, result |-> "pending",
                                             after |-> FALSE])
            /\ connecting' = [pc |-> "dial", retryCount |-> 0, retryDelay |-> Second]
            /\ stmuW' = [stmuW EXCEPT ![c] = CallerT]
  /\ UNCHANGED <<nclients, sconn, isConnected, config, stmuR, sttChan, sttReader>>
  /\ UNCHANGED <<mgrVars, sessVars, handlerVars, listenerVars, closerVars, envVars, histVars>>

\* websocket.Dial succeeds: s.conn = conn; s.isConnected = true;
\* go s.handleMessages(ctx); return nil
ConnectDialOk(c) ==
  /\ Alive /\ connecting.pc = "dial" /\ c = StreamingSTT
  /\ ~Done(ctx) /\ "down" \notin scn.faults
  /\ sconn' = [sconn EXCEPT ![c] = TRUE]
  /\ isConnected' = [isConnected EXCEPT ![c] = TRUE]
  /\ rpc' = [rpc EXCEPT ![c] = "top"]
  /\ rctx' = [rctx EXCEPT ![c] = ctx]
  /\ rsid' = [rsid EXCEPT ![c] = 0]
  /\ stmuW' = [stmuW EXCEPT ![c] = NoThread]
  /\ connecting' = NotConnecting
  /\ connects' = Noted([Call EXCEPT !.dials = @ + 1, !.spawned = @ + 1,
                                             !.result = "ok", !.after = TRUE])
  /\ UNCHANGED <<nclients, config, stmuR, sttChan, rmsg>>
  /\ UNCHANGED <<mgrVars, sessVars, handlerVars, listenerVars, closerVars, envVars, histVars>>

\* websocket.Dial fails: retryCount++; if retryCount < maxRetries the call goes
\* on to sleep, else it returns the error
ConnectDialFail(c) ==
  /\ Alive /\ connecting.pc = "dial" /\ c = StreamingSTT
  /\ "dial" \in scn.faults
  /\ IF connecting.retryCount + 1 < maxRetries
       THEN /\ connecting' = [connecting EXCEPT !.pc = "sleep", !.retryCount = @ + 1]
            /\ connects' = Noted([Call EXCEPT !.dials = @ + 1])
            /\ UNCHANGED stmuW
       ELSE /\ connecting' = NotConnecting
            /\ connects' = Noted([Call EXCEPT !.dials = @ + 1, !.result = "failed",
                                                       !.after = isConnected[c]])
            /\ stmuW' = [stmuW EXCEPT ![c] = NoThread]
  /\ UNCHANGED <<nclients, sconn, isConnected, config, stmuR, sttChan, sttReader>>
  /\ UNCHANGED <<mgrVars, sessVars, handlerVars, listenerVars, closerVars, envVars, histVars>>

\* time.Sleep(retryDelay); retryDelay *= 2
ConnectSleep(c) ==
  /\ Alive /\ connecting.pc = "sleep" /\ c = StreamingSTT
  /\ connecting' = [connecting EXCEPT !.pc = "dial", !.retryDelay = NextDelay(@)]
  /\ connects' = Noted([Call EXCEPT !.sleeps = Append(@, connecting.retryDelay)])
  /\ UNCHANGED <<mgrVars, sessVars, sttVars, handlerVars, listenerVars, closerVars, envVars,
                 histVars>>

ConnectInit == scn = ConnectScenario /\ Start

ConnectNext ==
  \/ \E cfg \in Configs : InitializeSession(cfg)
  \/ \E c \in Clients : ConnectBegin(c)
  \/ \E c \in Clients : ConnectDialOk(c)
  \/ \E c \in Clients : ConnectDialFail(c)
  \/ \E c \in Clients : ConnectSleep(c)

ConnectSpec == ConnectInit /\ [][ConnectNext]_vars

\* ---------------------------------------------- DetectActivity on any frames
\* the VAD of a new session, given frames above and below the threshold in any
\* order
VadScenario ==
  [name |-> "vad", attach |-> 0, clients |-> 1,
   frames |-> VadFrames, kinds |-> {"loud", "quiet"}, ticks |-> 0, age |-> 0,
   msgs |-> 0, types |-> {},
   close |-> 0, cfgs |-> {DefaultConfig}, faults |-> {},
   attachAfter |-> 0, closeAfter |-> 0]

\* session.VAD.DetectActivity(audioData) on a frame of at least 2 bytes
Detect(kind) ==
  /\ Alive /\ created
  /\ nframes < scn.frames /\ kind \in scn.kinds
  /\ nframes' = nframes + 1
  /\ LET r == DetectActivity(vad, kind = "loud") IN
     /\ vad' = r.state
     /\ readLog' = Append(readLog, [f |-> nframes + 1, raw |-> kind = "loud",
                                    vad |-> IF r.hasVoice THEN "true" ELSE "false"])
  /\ UNCHANGED <<Status, WebSocketConn, StreamingSTT, ctx, AssemblyAIID, TranscriptCount,
                 UtteranceCount, Transcript, sessMu, cancelled>>
  /\ UNCHANGED <<mgrVars, sttVars, handlerVars, listenerVars, closerVars, sock, nmsgs, nticks>>
  /\ UNCHANGED <<sendLog, emitted, offered, rounds, closeReturned, lastAdmit, turnsRead>>
  /\ UNCHANGED connVars

VadInit == scn = VadScenario /\ Start

VadNext ==
  \/ \E cfg \in Configs : InitializeSession(cfg)
  \/ \E kind \in FrameKinds : Detect(kind)

VadSpec == VadInit /\ [][VadNext]_vars

\* ---------------------------------------------- a remote ASR that reports errors
\* one attachment; the ASR sends Error messages, more than s.errors can hold
ErrorScenario ==
  [name |-> "errors", attach |-> 1, clients |-> 1,
   frames |-> 0, kinds |-> {}, ticks |-> 0, age |-> 0,
   msgs |-> ErrorMsgs, types |-> {"Error"},
   close |-> 0, cfgs |-> {DefaultConfig}, faults |-> {},
   attachAfter |-> 0, closeAfter |-> 0]

ErrorInit == scn = ErrorScenario /\ Start

ErrorNext ==
  \/ \E cfg \in Configs : InitializeSession(cfg)
  \/ \E h \in Handlers : HwLookup(h)
  \/ \E h \in Handlers : HwAdmit(h)
  \/ \E h \in Handlers : HwUpgradeOk(h)
  \/ \E h \in Handlers : PsConnectOk(h)
  \/ \E h \in Handlers : ListenerStart(h)
  \/ \E h \in Handlers : ListenerRecvError(h)
  \/ \E c \in Clients : ReaderTop(c)
  \/ \E c \in Clients : ReaderMessage(c)
  \/ \E c \in Clients : ReaderEmit(c)

ErrorSpec == ErrorInit /\ [][ErrorNext]_vars

\* ---------------------------------------------- handleTranscript on any result
\* the StreamingResult values the transcripts channel can carry (its element
\* type allows every message type, an empty text and an empty session id)
Results == [MessageType : MessageTypes, Text : 0..HandleResults, SessionID : 0..1]

\* case transcript, ok := <-session.StreamingSTT.GetTranscripts(), ok, for any
\* result: the n-th result has text n or no text
ListenerRecvAny(h) ==
  /\ Alive /\ lpc[h] = "inner"
  /\ nmsgs < scn.msgs
  /\ nmsgs' = nmsgs + 1
  /\ \E result \in Results :
       /\ result.MessageType \in scn.types
       /\ result.Text \in {0, nmsgs + 1}
       /\ lres' = [lres EXCEPT ![h] = result]
  /\ lpc' = [lpc EXCEPT ![h] = "handle"]
  /\ UNCHANGED <<lclient, lctx>>
  /\ UNCHANGED <<mgrVars, sessVars, sttVars, handlerVars, closerVars, sock, nframes, nticks,
                 histVars>>
  /\ UNCHANGED connVars

HandleInit == scn = HandleScenario /\ Start

HandleNext ==
  \/ \E cfg \in Configs : InitializeSession(cfg)
  \/ \E h \in Handlers : HwLookup(h)
  \/ \E h \in Handlers : HwAdmit(h)
  \/ \E h \in Handlers : HwUpgradeOk(h)
  \/ \E h \in Handlers : PsConnectOk(h)
  \/ \E h \in Handlers : ListenerStart(h)
  \/ \E h \in Handlers : ListenerRecvAny(h)
  \/ \E h \in Handlers : ListenerHandle(h)

HandleSpec == HandleInit /\ [][HandleNext]_vars

\* ================================================================== claims
\* the sockets that are open on the server side
AttachedSockets == {x \in Handlers : sock[x] = "open"}
\* the requests that are inside the admission section of HandleWebSocket
Admitting == {h \in Handlers : hpc[h] \in {"hw_close", "hw_close_b", "hw_reset", "hw_upgrade"}}
\* the requests that are running handleAudioStream's loop with a usable client
Streaming == {h \in Handlers : hpc[h] \in {"loop", "reading", "send"}}

\* C1: a HandleWebSocket request that finds the session "connected" is answered
\* 409 and returns; the step changes none of the session's status, socket
\* handle, ASR client and cancellation handle, takes no lock, and leaves every
\* socket as it was, so the attached socket stays open.
C1_RejectWhenConnected ==
  [][\A h \in Handlers :
       (hpc[h] = "hw_lock" /\ hpc'[h] # "hw_lock" /\ Status = "connected")
         => /\ hresult'[h] = "409" /\ hpc'[h] = "done"
            /\ UNCHANGED <<Status, WebSocketConn, StreamingSTT, ctx, cancelled, sock,
                           sessMu, isConnected, sconn>>]_vars

\* a second request has been answered 409 while the first one's socket is
\* attached and open
C1_Witness ==
  \E h \in Handlers :
    /\ hresult[h] = "409" /\ Status = "connected"
    /\ WebSocketConn # 0 /\ WebSocketConn # h /\ sock[WebSocketConn] = "open"

\* C2: at most one client socket is open on the server side, and it is the one
\* the session holds; at most one request is inside the admission section at a
\* time, and while one is there the session is not "connected" and no socket is
\* open, so of two racing requests only one can be admitted at a time.
C2_AtMostOneSocket ==
  /\ Cardinality(AttachedSockets) <= 1
  /\ \A x \in AttachedSockets : WebSocketConn = x
  /\ Cardinality(Admitting) <= 1
  /\ Admitting # {} => Status # "connected" /\ AttachedSockets = {}

\* two requests race: one is inside the admission section, the other waits
\* for session.mu
C2_Witness ==
  \E h1, h2 \in Handlers :
    h1 # h2 /\ hpc[h1] = "hw_upgrade" /\ hpc[h2] = "hw_lock"

\* C3: once a CloseSession has answered, no frame is forwarded to the ASR, no
\* transcript is offered to a socket, and the session id is not in the registry.
C3_NothingAfterClose ==
  /\ \A i \in DOMAIN sendLog : ~(sendLog[i].ok /\ sendLog[i].closed)
  /\ \A i \in DOMAIN offered : ~offered[i].closed
  /\ closeReturned => sessions = {}

\* C4: the frames passed to SendAudio are, in order, frames that were read from
\* the socket and for which the VAD answered true; none is passed twice.
C4_ForwardedInOrder ==
  /\ \A i, j \in DOMAIN sendLog : i < j => sendLog[i].f < sendLog[j].f
  /\ \A i \in DOMAIN sendLog :
       \E k \in DOMAIN readLog : readLog[k].f = sendLog[i].f /\ readLog[k].vad = "true"

\* how often event e is in the session's transcript log, and how often it was
\* offered to a socket
Logged(e) == Cardinality({j \in DOMAIN Transcript : Transcript[j].Text = e})
Offered(e) == Cardinality({j \in DOMAIN offered : offered[j].ev = e})
\* no listener holds an event and no channel buffers one
Drained ==
  /\ \A h \in Handlers : lpc[h] # "handle"
  /\ \A c \in Clients : transcripts[c] = <<>>

\* C5: every event a reader emitted is logged at most once and offered exactly
\* as often as it is logged, and once nothing is buffered any more it has been
\* logged and offered exactly once.
C5_ExactlyOnce ==
  \A i \in DOMAIN emitted :
    /\ Logged(emitted[i]) <= 1
    /\ Offered(emitted[i]) = Logged(emitted[i])
    /\ Drained => Logged(emitted[i]) = 1

\* C6: a handler has used at most maxReconnectAttempts reconnect rounds since
\* its last IDLE->IN_UTTERANCE transition (or since it started), and
\* reconnectAttempts is 0 right after every such transition.
C6_RoundsPerUtterance ==
  [][\A h \in Handlers :
       /\ rounds'[h] <= maxReconnectAttempts
       /\ (~inUtterance[h] /\ inUtterance'[h]) => reconnectAttempts'[h] = 0]_vars

\* four sends in a row failed: three rounds were run and the fourth was refused
C6_Witness ==
  \E h \in Handlers :
    /\ rounds[h] = maxReconnectAttempts /\ hresult[h] = "asr_failed"
    /\ Len(sendLog) = maxReconnectAttempts + 1
    /\ \A i \in DOMAIN sendLog : ~sendLog[i].ok

\* C7: a handler ends its session because of an ASR failure only when three
\* reconnect rounds have been used.
C7_TerminateAfterThreeRounds ==
  [][\A h \in Handlers :
       (hresult[h] # "asr_failed" /\ hresult'[h] = "asr_failed")
         => rounds[h] >= maxReconnectAttempts]_vars

\* the session has settled after the end of an attachment
Settled ==
  /\ Status = "disconnected" /\ WebSocketConn = 0
  /\ ~isConnected[StreamingSTT] /\ ~sconn[StreamingSTT]
  /\ sessMu = NoThread

\* C8: once the browser has closed the socket, the session eventually is
\* "disconnected" with its socket handle cleared, its ASR client closed and
\* session.mu released; and the session stays registered while no CloseSession
\* has arrived.
C8_EventuallySettled ==
  /\ (\E x \in Handlers : sock[x] = "peerclosed") ~> Settled
  /\ [](created /\ ncloses = 0 => sessions = {"s"})

\* C9: the step that completes the admission of a request on a "disconnected"
\* session leaves status "connected", a context that is new and not cancelled,
\* an ASR client that was constructed during this admission and has the config
\* of the client the admission found, that client closed, and the transcript
\* log and the counters as the admission found them.
C9_ReattachFresh ==
  [][\A h \in Handlers :
       (hpc[h] = "hw_upgrade" /\ hpc'[h] = "ps_connect" /\ lastAdmit.from = "disconnected")
         => /\ Status' = "connected"
            /\ ctx' # lastAdmit.ctx /\ ~(ctx' \in cancelled')
            /\ StreamingSTT' > lastAdmit.made
            /\ ~isConnected'[lastAdmit.client] /\ ~sconn'[lastAdmit.client]
            /\ config'[StreamingSTT'] = lastAdmit.cfg
            /\ Transcript' = lastAdmit.log
            /\ TranscriptCount' = lastAdmit.tc /\ UtteranceCount' = lastAdmit.uc]_vars

\* C10: while the session is "connected" its socket handle is set, and, unless
\* a request is still between the upgrade and the end of processSession or
\* inside a reconnect round, its current ASR client is connected.
C10_ConnectedImpliesLive ==
  Status = "connected" =>
    /\ WebSocketConn # 0
    /\ (\A h \in Handlers : hpc[h] \in {"idle", "done"} \/ h \in Streaming)
         => isConnected[StreamingSTT] /\ sconn[StreamingSTT]

\* C11: a step that ends an utterance (the silence ticker or the maximum
\* duration) leaves the session's ASR client, the set of clients, their
\* connections and their channels as they were; and a handler enters the
\* reconnect protocol only in the step in which its SendAudio returned an error.
C11_BoundaryKeepsClient ==
  [][\A h \in Handlers :
       /\ (inUtterance[h] /\ ~inUtterance'[h] /\ hpc'[h] # "done")
            => UNCHANGED <<StreamingSTT, nclients, sconn, isConnected, chClosed, config>>
       /\ (hpc[h] # "rc_sleep" /\ hpc'[h] = "rc_sleep")
            => /\ hpc[h] = "send"
               /\ Len(sendLog') = Len(sendLog) + 1
               /\ ~sendLog'[Len(sendLog')].ok]_vars

\* the silence ticker has ended an utterance after maxSilenceCount counted
\* ticks, and the client that turnsRead the utterance's audio is still connected
C11_Witness ==
  \E h \in Handlers :
    /\ hpc[h] = "loop" /\ ~inUtterance[h]
    /\ continuousSilenceCount[h] = maxSilenceCount
    /\ \E i \in DOMAIN sendLog : sendLog[i].ok /\ sendLog[i].c = StreamingSTT
    /\ isConnected[StreamingSTT] /\ sconn[StreamingSTT]

\* C12: session.AssemblyAIID, once it holds an id, changes only in the step in
\* which a reconnect round clears it; and every transcript message offered to
\* the socket carries the id the session holds at that moment.
C12_IdChangesOnlyByReconnect ==
  [][/\ (AssemblyAIID # 0 /\ AssemblyAIID' # AssemblyAIID)
          => /\ AssemblyAIID' = 0
             /\ \E h \in Handlers : hpc[h] = "rc_clear" /\ hpc'[h] = "loop"
     /\ Len(offered') > Len(offered)
          => offered'[Len(offered')].session_id = AssemblyAIID']_vars

\* the client was told one id, a reconnect round cleared it, and the session
\* now holds another id
C12_Witness ==
  /\ AssemblyAIID # 0
  /\ \E i \in DOMAIN offered : offered[i].session_id \notin {0, AssemblyAIID}
  /\ \E h \in Handlers : rounds[h] > 0 /\ hpc[h] = "loop"

\* C14: every Turn message with text that a reader got from the remote ASR is
\* on its way to the transcripts channel or has been put on it, and once it has
\* been handled it is in the log as an "utterance" and has been counted.
C14_TurnEmitted ==
  \A i \in DOMAIN turnsRead :
    LET n == turnsRead[i].n
        c == turnsRead[i].c
    IN /\ \/ rpc[c] = "emit" /\ rmsg[c].ch = "t" /\ rmsg[c].item.Text = n
          \/ \E j \in DOMAIN emitted : emitted[j] = n
       /\ Logged(n) = 1 => UtteranceCount >= 1

\* C13: UtteranceCount is the number of handled results that were Turn results
\* with text (the log has one entry per handled result, of type "utterance"
\* for a Turn), and TranscriptCount is the number of handled results.
C13_UtteranceCountIsTurns ==
  /\ UtteranceCount =
       Cardinality({j \in DOMAIN Transcript :
                      Transcript[j].Type = "utterance" /\ Transcript[j].Text # 0})
  /\ TranscriptCount = Len(Transcript)

\* a Turn with text and a final with text have been handled: one utterance
C13_Witness ==
  /\ UtteranceCount = 1 /\ Len(Transcript) = 2
  /\ \E j \in DOMAIN Transcript :
       Transcript[j].Type = "utterance" /\ Transcript[j].Text # 0
  /\ \E j \in DOMAIN Transcript :
       Transcript[j].Type = "final" /\ Transcript[j].Text # 0

\* the place of event e in the order in which the readers put events on their
\* transcripts channels
EmitPos(e) == CHOOSE k \in DOMAIN emitted : emitted[k] = e

\* C15: the transcript messages are offered to the sockets in the order in
\* which the readers enqueued their events.
C15_OfferedInEmitOrder ==
  \A i, j \in DOMAIN offered :
    i < j => EmitPos(offered[i].ev) < EmitPos(offered[j].ev)

\* C16: a transcript listener whose attachment has ended (its handler has
\* returned, after firing the cancellation) waits only on a context that is
\* done, so it can only exit; and no reader is left waiting for a lock.
C16_LoopsEndWithAttachment ==
  /\ \A h \in Handlers :
       (hpc[h] = "done" /\ lpc[h] = "inner") => Done(lctx[h])
  /\ \A c \in Clients : rpc[c] = "stuck" => ~Done(rctx[c])

\* the goroutines that work for the session: request handlers past the
\* registry lookup, transcript listeners and client readers
RunningLoops ==
  {HandlerT(h) : h \in {x \in Handlers : hpc[x] \notin {"idle", "done"}}}
    \cup {ListenerT(h) : h \in {x \in Handlers : lpc[x] \notin {"off", "done"}}}
    \cup {ReaderT(c) : c \in {x \in Clients : rpc[x] \notin {"none", "done"}}}

\* C17: the step in which CloseSession deletes the session from the registry
\* finds the session's context cancelled and none of its goroutines running.
C17_DeleteAfterLoopsExit ==
  [][(sessions # {} /\ sessions' = {}) => (Done(ctx) /\ RunningLoops = {})]_vars

\* C18: every call of SendAudio returns: a handler that holds a voiced frame
\* gets past the call, with the frame forwarded or with an error that starts
\* the reconnect protocol.
C18_SendReturns ==
  \A h \in Handlers : (hpc[h] = "send") ~> (hpc[h] # "send")

\* C19: a reader never enters s.reconnect (after a failed read it reports the
\* error and returns), and a reader that returns from a read (normal closure
\* or SessionTerminated) puts nothing on the errors channel.
C19_ReaderExitsWithoutRedial ==
  [][\A c \in Clients :
       /\ rpc'[c] \notin {"reconnect", "stuck"}
       /\ (rpc[c] = "read" /\ rpc'[c] = "done") => errors'[c] = errors[c]]_vars

\* C20: the StreamingSTT a reconnect round constructs has the config that
\* InitializeSession gave the session's first StreamingSTT.
C20_ReconnectKeepsConfig ==
  [][\A h \in Handlers :
       (hpc[h] = "rc_new" /\ hpc'[h] = "rc_connect")
         => config'[StreamingSTT'] = config[1]]_vars

\* C21: no handler holds session.mu, and no CloseSession request holds im.mu,
\* at a point where its next step is an HTTP upgrade, a socket read, SendAudio,
\* a StreamingSTT Connect or Close, or a reconnect delay.
C21_NoLockAcrossIO ==
  /\ \A h \in Handlers :
       hpc[h] \in {"hw_close", "hw_close_b", "hw_upgrade", "ps_connect", "reading",
                   "send", "rc_sleep", "rc_close_b", "rc_connect",
                   "cl_close", "cl_close_b"}
         => sessMu # HandlerT(h)
  /\ cpc \in {"close", "close_b"} => imMu # CloserT

\* C22: session fields are accessed under session.mu: a step that replaces
\* session.StreamingSTT of a registered session is taken by a handler that
\* holds session.mu, and CloseSession reads session.Status only when no other
\* thread holds session.mu.
C22_FieldsUnderSessionMu ==
  [][/\ (created /\ StreamingSTT' # StreamingSTT)
          => \E h \in Handlers : /\ sessMu = HandlerT(h)
                                 /\ hpc'[h] # hpc[h]
     /\ (cpc = "idle" /\ ncloses' # ncloses /\ sessions # {})
          => sessMu = NoThread]_vars

\* C23: a transcript with text that a reader has taken from the ASR socket is
\* not lost: while it waits to be sent on s.transcripts the process lives, the
\* channel never holds more than its capacity, and it holds the transcripts in
\* the order they were read.
C23_NoTranscriptDiscarded ==
  \A c \in Clients :
    /\ (rpc[c] = "emit" /\ rmsg[c].ch = "t") => ~crashed
    /\ Len(transcripts[c]) <= TranscriptsCap
    /\ \A i, j \in DOMAIN transcripts[c] :
         i < j => transcripts[c][i].Text < transcripts[c][j].Text

\* C24: a non-blocking report of an error to a full s.errors drops the oldest
\* pending error and keeps the new one.
C24_OldestErrorDropped ==
  [][\A c \in Clients :
       (/\ rpc[c] = "emit" /\ rpc'[c] # "emit"
        /\ rmsg[c].ch = "e" /\ ~rmsg[c].block
        /\ Len(errors[c]) = ErrorsCap)
         => errors'[c] = Append(Tail(errors[c]), rmsg[c].item)]_vars

C26_CloseTerminatesChannels ==
  [][/\ \A h \in Handlers :
          (/\ hpc[h] \in {"hw_close", "rc_sleep", "cl_close"}
           /\ hpc'[h] \notin {hpc[h], "hw_close_b", "rc_close_b", "cl_close_b"})
            => chClosed'[StreamingSTT]
     /\ (cpc = "close" /\ cpc' \notin {"close", "close_b"}) => chClosed'[StreamingSTT]]_vars

\* C27: a call of Connect dials at most 3 times, sleeps 1 s after the first
\* and 2 s after the second failed dial, returns at the first successful dial
\* having started exactly one reader, returns an error after the third failed
\* dial with no reader started and the client not connected, and on a connected
\* client returns an error without dialling.
C27_ConnectRetries ==
  /\ \A i \in DOMAIN connects :
       LET r == connects[i] IN
       /\ r.dials <= 3 /\ r.spawned <= 1
       /\ r.sleeps \in {<<>>, <<1000>>, <<1000, 2000>>}
       /\ r.result = "pending" => (r.spawned = 0 /\ Len(r.sleeps) \in {r.dials - 1, r.dials})
       /\ r.result = "ok" => (r.spawned = 1 /\ Len(r.sleeps) = r.dials - 1 /\ r.after)
       /\ r.result = "failed" => (/\ r.dials = 3 /\ r.sleeps = <<1000, 2000>>
                                  /\ r.spawned = 0 /\ ~r.after)
       /\ r.was <=> r.result = "already"
       /\ r.result = "already" => (r.dials = 0 /\ r.spawned = 0 /\ r.sleeps = <<>>)
  /\ (\A i \in DOMAIN connects : connects[i].result # "ok")
       => \A c \in Clients : rpc[c] = "none" /\ ~isConnected[c] /\ ~sconn[c]
\* three calls: three failed dials; two failed dials and a success; a call on
\* the connected client
C27_Witness ==
  /\ Len(connects) = 3
  /\ connects[1].result = "failed"
  /\ connects[2].result = "ok" /\ connects[2].dials = 3
  /\ connects[3].result = "already"

\* C28: on a fresh session whose only attachment reads only frames above the
\* energy threshold, DetectActivity answers false for frames 1 and 2 and true
\* for frame 3, and the utterance is not open before frame 3 has been read.
C28_OpensOnThirdFrame ==
  (scn.attach = 1 /\ scn.kinds = {"loud"})
    => /\ \A i \in DOMAIN readLog : i < 3 => readLog[i].vad = "false"
       /\ Len(readLog) >= 3 => readLog[3].vad = "true"
       /\ \A h \in Handlers : inUtterance[h] => Len(readLog) >= 3

\* C29: a frame shorter than 2 bytes makes DetectActivity return an error and
\* leave the VAD as it was; handleAudioStream drops the frame and goes on with
\* its utterance state, its timers and the StreamingSTT unchanged.
C29_ShortFrameDropped ==
  [][\A h \in Handlers :
       (/\ hpc[h] = "reading" /\ hpc'[h] # "reading"
        /\ Len(readLog') > Len(readLog)
        /\ readLog'[Len(readLog')].vad = "err")
         => /\ hpc'[h] = "loop"
            /\ UNCHANGED <<vad, hUtt, StreamingSTT, sttObj, sendLog>>]_vars
\* a short frame has been read inside an open utterance, after a frame that
\* the VAD answered and that was sent
C29_Witness ==
  /\ Len(readLog) = 2 /\ readLog[1].vad = "true" /\ readLog[2].vad = "err"
  /\ vad # NewVAD
  /\ \E h \in Handlers : inUtterance[h] /\ hpc[h] = "loop"

\* C30: the answers of DetectActivity are those of the reference: the smoothed
\* decision of frame k is the strict majority of the raw decisions of frames
\* k-4..k (frames before the first count as false); a run of smoothed-true
\* frames answers true from its third frame, a run of smoothed-false frames
\* answers true for its first four frames; voiceCounter and silenceCounter are
\* the lengths of the current runs and are never both non-zero.
C30_MatchesReference ==
  LET n == Len(readLog)
      Smoothed(k) == Cardinality({j \in (k - 4)..k : j >= 1 /\ readLog[j].raw}) > 2
      VoiceRun(k) == IF Smoothed(k)
                       THEN k - Max({j \in 0..k : j = 0 \/ ~Smoothed(j)}) ELSE 0
      SilenceRun(k) == IF Smoothed(k)
                         THEN 0 ELSE k - Max({j \in 0..k : j = 0 \/ Smoothed(j)})
      Expected(k) == IF Smoothed(k) THEN VoiceRun(k) >= 3 ELSE SilenceRun(k) < 5
  IN /\ \A k \in 1..n : readLog[k].vad = IF Expected(k) THEN "true" ELSE "false"
     /\ vad.voiceCounter = (IF n = 0 THEN 0 ELSE VoiceRun(n))
     /\ vad.silenceCounter = (IF n = 0 THEN 0 ELSE SilenceRun(n))
     /\ ~(vad.voiceCounter # 0 /\ vad.silenceCounter # 0)
     /\ vad.bufferIndex = n % 5
     /\ \A i \in 1..5 : vad.buffer[i] = (\E j \in (n - 4)..n :
                                            j >= 1 /\ (j - 1) % 5 = i - 1 /\ readLog[j].raw)
\* twelve frames: the fourth is loud and answered false, the fifth is loud and
\* answered true (third frame of a voice run), the last is the fifth frame of
\* a silence run and answered false
C30_Witness ==
  /\ Len(readLog) = 12
  /\ readLog[4].raw /\ readLog[4].vad = "false"
  /\ readLog[5].raw /\ readLog[5].vad = "true"
  /\ vad.silenceCounter = 5 /\ readLog[12].vad = "false"

\* C31: continuousSilenceCount grows only by one, on a ticker tick taken inside
\* an utterance that is older than 500 ms and whose last sent frame is at least
\* 100 ms old; a successful SendAudio zeroes it; the tick that brings it to 12
\* ends the utterance, a tick ends the utterance only by bringing it to 12, and
\* it never exceeds 12.
C31_SilenceCounter ==
  [][\A h \in Handlers :
       /\ continuousSilenceCount'[h] > continuousSilenceCount[h]
            => /\ continuousSilenceCount'[h] = continuousSilenceCount[h] + 1
               /\ hpc[h] = "loop" /\ inUtterance[h] /\ nticks' = nticks + 1
               /\ inUtterance'[h] => (startAge'[h] >= 1 /\ voiceAge'[h] >= 1)
       /\ (hpc[h] = "send" /\ Len(sendLog') > Len(sendLog) /\ sendLog'[Len(sendLog')].ok)
            => continuousSilenceCount'[h] = 0
       /\ (continuousSilenceCount[h] < 12 /\ continuousSilenceCount'[h] = 12)
            => (inUtterance[h] /\ ~inUtterance'[h])
       /\ (nticks' # nticks /\ hpc[h] = "loop" /\ inUtterance[h] /\ ~inUtterance'[h])
            => (continuousSilenceCount[h] = 11 /\ continuousSilenceCount'[h] = 12)
       /\ continuousSilenceCount'[h] <= 12]_vars
\* twelve counted ticks after a sent frame have ended the utterance
C31_Witness ==
  \E h \in Handlers :
    /\ nticks = 12 /\ continuousSilenceCount[h] = 12
    /\ ~inUtterance[h] /\ hpc[h] = "loop"
    /\ Len(sendLog) = 1 /\ sendLog[1].ok

C33_AttemptsResetOnSend ==
  [][\A h \in Handlers :
       (hpc[h] = "send" /\ Len(sendLog') > Len(sendLog) /\ sendLog'[Len(sendLog')].ok)
         => reconnectAttempts'[h] = 0]_vars

\* C34: a CloseSession request that has taken im.mu eventually releases it.
C34_CloseReturns == (imMu = CloserT) ~> (imMu = NoThread)

\* C35: no reader sends on s.transcripts or s.errors after Close has closed the
\* channel: the process is never ended by that panic.
C35_NoSendOnClosed == ~crashed

\* C36: at most one listenForTranscripts goroutine of the session is running.
C36_OneListener ==
  Cardinality({h \in Handlers : lpc[h] \notin {"off", "done"}}) <= 1

\* C37: when a round of reconnectSTTOnError has connected the new client, a
\* listenForTranscripts goroutine of the session is running to receive what the
\* new client delivers, also when processSession's Connect had failed.
C37_ListenerAfterReconnect ==
  [][\A h \in Handlers :
       (hpc[h] = "rc_connect" /\ hpc'[h] = "rc_clear")
         => \E g \in Handlers : lpc'[g] \notin {"off", "done"}]_vars

\* C38: handleAudioStream never calls ReadMessage on a nil
\* session.WebSocketConn: no handler ends in the nil-pointer panic.
C38_NoNilSocketRead == \A h \in Handlers : hresult[h] # "panic"

\* C39: the deferred cleanup of handleAudioStream closes no socket but the one
\* its own HandleWebSocket stored: the socket of a later attachment stays open.
C39_CleanupOwnSocket ==
  [][\A h \in Handlers :
       (hpc[h] = "cl_lock" /\ hpc'[h] = "cl_close")
         => \A k \in Handlers : sock'[k] # sock[k] => k = h]_vars

\* C40: TranscriptCount is the length of session.Transcript, UtteranceCount is
\* at most TranscriptCount, and every step keeps the entries the log had, in
\* place and unaltered, through reconnects and re-attachments.
C40_LogOnlyGrows ==
  [][/\ TranscriptCount = Len(Transcript) /\ TranscriptCount' = Len(Transcript')
     /\ UtteranceCount <= TranscriptCount /\ UtteranceCount' <= TranscriptCount'
     /\ Len(Transcript') >= Len(Transcript)
     /\ SubSeq(Transcript', 1, Len(Transcript)) = Transcript]_vars

\* the log holds an entry the session's first client delivered and, after it,
\* one delivered by the client that replaced it
C40_Witness ==
  /\ Len(Transcript) = 2 /\ TranscriptCount = 2
  /\ Transcript[1].SessionID # 0 /\ Transcript[2].SessionID # 0
  /\ Transcript[1].SessionID # Transcript[2].SessionID
  /\ StreamingSTT >= 2 /\ Status = "connected"

====
